---- MODULE Spec2Model ----
(***************************************************************************)
(* Model of the mindmirror memory service.                                 *)
(*                                                                         *)
(*   memory engine   src/memory_server.py  (store_memory, search_memories, *)
(*                   keyword_search, delete_memory)                        *)
(*   auth gateway    src/proxy_sse.py      (sse_passthrough,               *)
(*                   messages_passthrough)                                 *)
(*                                                                         *)
(* Similarities and distances are integers in hundredths (0.65 is 65).     *)
(* A text is a sequence of word tokens; the token " " is whitespace.       *)
(* Handlers of the memory engine run one at a time in Spec and SpecQuota;  *)
(* every handler is one action.                                            *)
(***************************************************************************)
EXTENDS Integers, Sequences, FiniteSets, TLC

\* ------------------------------------------------------------------------
\* Bounds of the model
\* ------------------------------------------------------------------------
MaxStores == 3          \* records a behaviour may add to the initial store
FirstNow == 1           \* clock reading of the initial state
MaxStreams == 2         \* SSE connections a behaviour may open

\* ------------------------------------------------------------------------
\* Program constants
\* ------------------------------------------------------------------------
VALID_TAGS ==
  {"goal", "routine", "preference", "constraint", "habit", "project", "tool",
   "identity", "value"}
MEMORY_LIMIT == 25
DUPLICATE_THRESHOLD == 95
SIMILARITY_THRESHOLD == 65
DUP_SCAN_LIMIT == 3
CONFLICT_SCAN_LIMIT == 5

NoTag == "<none>"       \* Python None for an optional tag filter
NoTime == -1000         \* Python None for an optional timestamp

\* ------------------------------------------------------------------------
\* auth_tokens rows: token -> (user_id, is_active, is_admin)
\* ------------------------------------------------------------------------
auth_tokens ==
  [ tA  |-> [user_id |-> "uA",  is_active |-> TRUE,  is_admin |-> FALSE],
    tA2 |-> [user_id |-> "uA",  is_active |-> TRUE,  is_admin |-> FALSE],
    tB  |-> [user_id |-> "uB",  is_active |-> TRUE,  is_admin |-> FALSE],
    tR  |-> [user_id |-> "uR",  is_active |-> TRUE,  is_admin |-> TRUE],
    tX  |-> [user_id |-> "uX",  is_active |-> FALSE, is_admin |-> FALSE] ]

Tokens == DOMAIN auth_tokens

\* SELECT is_admin FROM auth_tokens WHERE user_id = u AND is_active LIMIT 1
IsAdmin(u) ==
  \E t \in Tokens : /\ auth_tokens[t].user_id = u
                    /\ auth_tokens[t].is_active
                    /\ auth_tokens[t].is_admin

\* ------------------------------------------------------------------------
\* Text: str.strip(), str.lower(), md5 of "norm:tag", the embedding model
\* ------------------------------------------------------------------------
LowerWord(w) ==
  CASE w = "Night" -> "night"
    [] w = "Go"    -> "go"
    [] OTHER       -> w

RECURSIVE LStrip(_)
LStrip(s) == IF s # <<>> /\ Head(s) = " " THEN LStrip(Tail(s)) ELSE s

RECURSIVE RStrip(_)
RStrip(s) ==
  IF s # <<>> /\ s[Len(s)] = " " THEN RStrip(SubSeq(s, 1, Len(s) - 1)) ELSE s

Strip(s) == RStrip(LStrip(s))

Lower(s) == [i \in 1..Len(s) |-> LowerWord(s[i])]

\* memory.text.strip().lower()
Normalize(text) == Lower(Strip(text))

\* hashlib.md5(f"{memory_text_normalized}:{memory.tag}").hexdigest();
\* the digest is taken to be injective on the texts of the model
MemoryHash(text, tag) == <<Normalize(text), tag>>

\* texts far from each other and from every other text of the model
SeedWords ==
  << "k01", "k02", "k03", "k04", "k05", "k06", "k07", "k08", "k09", "k10",
     "k11", "k12", "k13", "k14", "k15", "k16", "k17", "k18", "k19", "k20",
     "k21", "k22", "k23", "k24", "k25", "k26" >>

\* texts whose embeddings lie 0.05, 0.11, 0.17 and 0.25 away from "night"
BandWords == << "b1", "b2", "b3", "b4" >>
BandPoints == << 5, 11, 17, 25 >>

\* model.encode(text): the embedding is a point; all-MiniLM-L6-v2 is
\* uncased and ignores surrounding whitespace
Embed(text) ==
  LET n == Normalize(text) IN
  CASE n = <<"night">>          -> 0
    [] \E k \in 1..Len(BandWords) : n = <<BandWords[k]>> ->
         BandPoints[CHOOSE k \in 1..Len(BandWords) : n = <<BandWords[k]>>]
    [] n = <<"night", ".">>     -> 3
    [] n = <<"morning">>        -> 30
    [] n = <<"evening">>        -> 60
    [] n = <<"go">>             -> 250
    [] n = <<>>                 -> 500
    [] \E k \in 1..Len(SeedWords) : n = <<SeedWords[k]>> ->
         1000 + 300 * (CHOOSE k \in 1..Len(SeedWords) : n = <<SeedWords[k]>>)
    [] OTHER                    -> 700

Abs(x) == IF x < 0 THEN -x ELSE x
Min(a, b) == IF a < b THEN a ELSE b

\* embedding <=> q : cosine distance, in [0, 2]
CosDistance(p, q) == Min(200, Abs(p - q))

\* COALESCE(1 - (embedding <=> q), 0.0)
Similarity(p, q) == 100 - CosDistance(p, q)

\* ------------------------------------------------------------------------
\* State
\* ------------------------------------------------------------------------
VARIABLES
  memories,        \* table memories: id -> row
  memory_hashes,   \* process-wide set of exact hashes
  now,             \* wall clock, in milliseconds
  response,        \* what the last handler returned
  inflight,        \* a recall between its semantic query and its next step
  session_store,   \* gateway: session_id -> [user_id, token]
  streams,         \* gateway: SSE connections, conn -> [user_id, token,
                   \* first_chunk_sent, ended]
  first_bound,     \* history: session_id -> user_id of its first binding
  forwarded,       \* gateway: the /messages request the last step sent
                   \* downstream, NoForward when it sent none
  short_term_memories,  \* table short_term_memories: a set of rows
  calls,           \* engine calls, begun or completed, in order of arrival
  session_tokens   \* dispatcher: session_id -> token, process-wide

vars == <<memories, memory_hashes, now, response, inflight, session_store,
          streams, first_bound, forwarded, short_term_memories, calls,
          session_tokens>>

engineVars == <<memories, memory_hashes, now, response, inflight>>
gatewayVars == <<session_store, streams, first_bound, forwarded,
                 session_tokens>>
checkpointVars == <<short_term_memories, calls>>

Ids == DOMAIN memories

Range(s) == {s[i] : i \in 1..Len(s)}

\* metadata.get('has_conflicts', False)
HasConflicts(md) == "has_conflicts" \in DOMAIN md /\ md.has_conflicts

\* json.loads(metadata['conflict_ids']) when the key is present
ConflictIds(md) == IF "conflict_ids" \in DOMAIN md THEN md.conflict_ids ELSE <<>>

CountMemories(u) == Cardinality({i \in Ids : memories[i].user_id = u})

\* ------------------------------------------------------------------------
\* Authentication of an engine request (get_current_user)
\* ------------------------------------------------------------------------
NoUser == "<nobody>"

\* SELECT user_id FROM auth_tokens WHERE token = t AND is_active = true
GetUserFromToken(t) ==
  IF t \in Tokens /\ auth_tokens[t].is_active THEN auth_tokens[t].user_id
  ELSE NoUser

Unauthorized(op) == [op |-> op, user |-> NoUser, status |-> "401"]

NoResponse == [op |-> "none", user |-> NoUser, status |-> "none"]

NoForward == [sent |-> FALSE]

NoSearch == [active |-> FALSE]

\* ------------------------------------------------------------------------
\* Nearest-neighbour query:
\*   SELECT ... FROM memories WHERE user_id = u [AND tag = t]
\*   ORDER BY embedding <=> q LIMIT k
\* Rows at the same distance come back in an order the store picks (tb).
\* ------------------------------------------------------------------------
Scope_AllUsers(u, tag_filter) ==
  {i \in Ids : tag_filter = NoTag \/ memories[i].tag = tag_filter}

Scope(u, tag_filter) ==
  {i \in Ids : /\ memories[i].user_id = u
               /\ (tag_filter = NoTag \/ memories[i].tag = tag_filter)}

Closer(i, j, q, tb) ==
  LET di == CosDistance(memories[i].embedding, q)
      dj == CosDistance(memories[j].embedding, q)
  IN  \/ di < dj
      \/ di = dj /\ (IF tb = "asc" THEN i < j ELSE i > j)

RECURSIVE NearestOrder(_, _, _, _)
NearestOrder(S, q, tb, k) ==
  IF S = {} \/ k <= 0 THEN <<>>
  ELSE LET first == CHOOSE i \in S : \A j \in S \ {i} : Closer(i, j, q, tb)
       IN  <<first>> \o NearestOrder(S \ {first}, q, tb, k - 1)

Take(s, k) == SubSeq(s, 1, Min(k, Len(s)))

Nearest(u, tag_filter, q, k, tb) == NearestOrder(Scope(u, tag_filter), q, tb, k)

\* ------------------------------------------------------------------------
\* POST /memories  (store_memory)
\* ------------------------------------------------------------------------
\* store_memory lines 444-465: point a conflicting record back at the new one
LinkBack_FlagOnly(md, memory_id) == [has_conflicts |-> TRUE] @@ md

LinkBack(md, memory_id) ==
  IF "conflict_ids" \in DOMAIN md
  THEN IF memory_id \in Range(md.conflict_ids)
       THEN [has_conflicts |-> TRUE] @@ md
       ELSE [has_conflicts |-> TRUE,
             conflict_ids |-> Append(md.conflict_ids, memory_id)] @@ md
  ELSE [has_conflicts |-> TRUE, conflict_ids |-> <<memory_id>>] @@ md

\* store_memory lines 431-442: metadata of the new record
NewMetadata(tag, timestamp, memory_hash, last_accessed, conflicts) ==
  LET base == [tag |-> tag, timestamp |-> timestamp, hash |-> memory_hash,
               last_accessed |-> last_accessed]
  IN  IF conflicts # <<>>
      THEN [has_conflicts |-> TRUE, conflict_ids |-> conflicts] @@ base
      ELSE base

\* store_memory lines 347-377: the quota check
QuotaReached_Above(u) == ~IsAdmin(u) /\ CountMemories(u) > MEMORY_LIMIT

QuotaReached(u) == ~IsAdmin(u) /\ CountMemories(u) >= MEMORY_LIMIT

\* store_memory lines 330-334: the exact-duplicate check
ExactDuplicate(memory_hash) == memory_hash \in memory_hashes

\* store_memory lines 386-400: rows of the duplicate scan above the threshold
SemanticDuplicates_Identical(u, tag, embedding, tb) ==
  SelectSeq(Nearest(u, tag, embedding, DUP_SCAN_LIMIT, tb),
            LAMBDA i : Similarity(memories[i].embedding, embedding) >= 100)

SemanticDuplicates(u, tag, embedding, tb) ==
  SelectSeq(Nearest(u, tag, embedding, DUP_SCAN_LIMIT, tb),
            LAMBDA i : Similarity(memories[i].embedding, embedding)
                         > DUPLICATE_THRESHOLD)

\* store_memory lines 405-425: ids of the conflict scan at or above threshold
DetectConflicts_AnyTag(u, tag, embedding, tb) ==
  SelectSeq(Nearest(u, NoTag, embedding, CONFLICT_SCAN_LIMIT, tb),
            LAMBDA i : Similarity(memories[i].embedding, embedding)
                         >= SIMILARITY_THRESHOLD)

DetectConflicts(u, tag, embedding, tb) ==
  SelectSeq(Nearest(u, tag, embedding, CONFLICT_SCAN_LIMIT, tb),
            LAMBDA i : Similarity(memories[i].embedding, embedding)
                         >= SIMILARITY_THRESHOLD)

\* memories.created_at is not among the columns of the INSERT (lines
\* 468-471): the column takes its default, the time of the insert
CreatedAtDefault == now

\* lines 467-470: the INSERT finds a row with this id.  memories.id is the
\* key of the table, which is created outside this repository.
IdTaken_Never(memory_id) == FALSE

IdTaken(memory_id) == memory_id \in Ids

StoreMemory(token, text, tag, ts, la, tb) ==
  LET u == GetUserFromToken(token)
      timestamp == IF ts = NoTime THEN now ELSE ts
      memory_hash == MemoryHash(text, tag)
      embedding == Embed(text)
      dups == SemanticDuplicates(u, tag, embedding, tb)
      memory_id == now
      conflicts == DetectConflicts(u, tag, embedding, tb)
      last_accessed == IF la = NoTime THEN now ELSE la
      row == [id |-> memory_id, user_id |-> u, text |-> text, tag |-> tag,
              embedding |-> embedding, created_at |-> CreatedAtDefault,
              metadata |-> NewMetadata(tag, timestamp, memory_hash,
                                       last_accessed, conflicts)]
  IN
  /\ UNCHANGED gatewayVars
  /\ UNCHANGED inflight
  /\ UNCHANGED checkpointVars
  /\ IF u = NoUser
     THEN /\ response' = Unauthorized("store")
          /\ UNCHANGED <<memories, memory_hashes, now>>
     ELSE IF tag \notin VALID_TAGS
     THEN /\ response' = [op |-> "store", user |-> u, status |-> "400"]
          /\ UNCHANGED <<memories, memory_hashes, now>>
     ELSE IF ExactDuplicate(memory_hash)
     THEN /\ response' = [op |-> "store", user |-> u, status |-> "skipped",
                          reason |-> "duplicate", text |-> text, tag |-> tag]
          /\ UNCHANGED <<memories, memory_hashes, now>>
     ELSE
       /\ memory_hashes' = memory_hashes \cup {memory_hash}
       /\ IF QuotaReached(u)
          THEN /\ response' = [op |-> "store", user |-> u,
                               status |-> "limit",
                               memories_used |-> CountMemories(u),
                               memory_limit |-> MEMORY_LIMIT]
               /\ UNCHANGED <<memories, now>>
          ELSE IF dups # <<>>
          THEN /\ response' = [op |-> "store", user |-> u,
                               status |-> "duplicate",
                               existing |-> dups[1],
                               similarity |->
                                 Similarity(memories[dups[1]].embedding,
                                            embedding)]
               /\ UNCHANGED <<memories, now>>
          ELSE IF IdTaken(memory_id)
          THEN \* INSERT hits the primary key: the transaction is dropped
               /\ response' = [op |-> "store", user |-> u, status |-> "500"]
               /\ UNCHANGED <<memories, now>>
          ELSE /\ memories' =
                    [i \in Ids \cup {memory_id} |->
                       IF i = memory_id THEN row
                       ELSE IF i \in Range(conflicts)
                       THEN [memories[i] EXCEPT
                               !.metadata = LinkBack(@, memory_id)]
                       ELSE memories[i]]
               /\ now' = now + 1
               /\ response' = [op |-> "store", user |-> u,
                               status |-> "stored", id |-> memory_id,
                               text |-> text, tag |-> tag,
                               timestamp |-> timestamp]

\* src/memory_mcp_direct.py lines 275-279 (remember): the conflicts the tool
\* reads out of the result of POST /memories
RememberConflicts(result) ==
  IF "conflicts_detected" \in DOMAIN result /\ result.conflicts_detected
  THEN IF "conflicts" \in DOMAIN result THEN result.conflicts ELSE <<>>
  ELSE <<>>

\* ------------------------------------------------------------------------
\* POST /memories, statement by statement.  The handler runs its statements
\* in one transaction (READ COMMITTED) that it commits after the INSERT
\* (line 473): a statement reads what has been committed when it runs, the
\* call's own writes stay invisible to others and keep their rows locked
\* until it commits, and a call that raises never commits.  Calls served by
\* other server processes on the same database may run between any two
\* statements.  memory_hashes stands for the hash sets of all the processes:
\* a call is refused by it as if the calls with its text and tag had been
\* served by its own process.
\* ------------------------------------------------------------------------
RememberCall(u, text, tag, timestamp) ==
  [op |-> "remember", user |-> u, text |-> text, tag |-> tag,
   timestamp |-> timestamp, pc |-> "dup", id |-> NoTime,
   last_accessed |-> NoTime, conflicts |-> <<>>, k |-> 1, read |-> <<>>,
   writes |-> << >>, status |-> "running"]

InFlight(c) == calls[c].op = "remember" /\ calls[c].pc # "done"

\* the row is locked by the uncommitted UPDATE of a call other than c
LockedByOther(c, i) ==
  \E d \in 1..Len(calls) :
    d # c /\ InFlight(d) /\ i \in DOMAIN calls[d].writes

NoPendingWrites ==
  \A c \in 1..Len(calls) : InFlight(c) => DOMAIN calls[c].writes = {}

\* the UPDATEs of a transaction, at its commit; an UPDATE of a row that no
\* longer exists changed nothing
ApplyWrites(mem, writes) ==
  [i \in DOMAIN mem |->
     IF i \in DOMAIN writes THEN [mem[i] EXCEPT !.metadata = writes[i]]
     ELSE mem[i]]

\* the store after a call raised: its connection is dropped uncommitted
RolledBack_KeepWrites(mem, writes) == ApplyWrites(mem, writes)

RolledBack(mem, writes) == mem

\* lines 312-377: tag, exact-hash guard, admin and count check
RememberBegin(token, text, tag) ==
  LET u == GetUserFromToken(token)
      memory_hash == MemoryHash(text, tag)
  IN
  /\ u # NoUser
  /\ tag \in VALID_TAGS
  /\ UNCHANGED <<memories, now, inflight, short_term_memories>>
  /\ UNCHANGED gatewayVars
  /\ IF ExactDuplicate(memory_hash)
     THEN /\ response' = [op |-> "store", user |-> u, status |-> "skipped",
                          reason |-> "duplicate", text |-> text, tag |-> tag]
          /\ UNCHANGED <<memory_hashes, calls>>
     ELSE /\ memory_hashes' = memory_hashes \cup {memory_hash}
          /\ IF QuotaReached(u)
             THEN /\ response' = [op |-> "store", user |-> u,
                                  status |-> "limit",
                                  memories_used |-> CountMemories(u),
                                  memory_limit |-> MEMORY_LIMIT]
                  /\ UNCHANGED calls
             ELSE /\ calls' = Append(calls, RememberCall(u, text, tag, now))
                  /\ UNCHANGED response

\* lines 379-402: the duplicate scan, then the id of the new record
RememberDupScan(c) ==
  LET call == calls[c]
      embedding == Embed(call.text)
      dups == SemanticDuplicates(call.user, call.tag, embedding, "asc")
  IN
  /\ c \in 1..Len(calls)
  /\ InFlight(c)
  /\ call.pc = "dup"
  /\ UNCHANGED <<memories, memory_hashes, inflight, short_term_memories>>
  /\ UNCHANGED gatewayVars
  /\ IF dups # <<>>
     THEN /\ response' = [op |-> "store", user |-> call.user,
                          status |-> "duplicate", existing |-> dups[1],
                          similarity |->
                            Similarity(memories[dups[1]].embedding,
                                       embedding)]
          /\ calls' = [calls EXCEPT ![c].pc = "done",
                                    ![c].status = "duplicate"]
          /\ UNCHANGED now
     ELSE /\ calls' = [calls EXCEPT ![c].pc = "conflicts", ![c].id = now]
          /\ now' = now + 1
          /\ UNCHANGED response

\* lines 404-442: the conflict scan and the metadata of the new record
RememberConflictScan(c) ==
  LET call == calls[c]
      conflicts == DetectConflicts(call.user, call.tag, Embed(call.text),
                                   "asc")
  IN
  /\ c \in 1..Len(calls)
  /\ InFlight(c)
  /\ call.pc = "conflicts"
  /\ UNCHANGED <<memories, memory_hashes, now, response, inflight,
                 short_term_memories>>
  /\ UNCHANGED gatewayVars
  /\ calls' = [calls EXCEPT
                 ![c].conflicts = conflicts,
                 ![c].last_accessed = now,
                 ![c].pc = IF conflicts = <<>> THEN "insert"
                           ELSE "link_read"]

\* lines 445-448: SELECT metadata FROM memories WHERE id = conflict_id
RememberLinkRead(c) ==
  LET call == calls[c]
      n == call.conflicts[call.k]
  IN
  /\ c \in 1..Len(calls)
  /\ InFlight(c)
  /\ call.pc = "link_read"
  /\ UNCHANGED <<memories, memory_hashes, now, response, inflight,
                 short_term_memories>>
  /\ UNCHANGED gatewayVars
  /\ calls' = [calls EXCEPT
                 ![c].read = IF n \notin Ids THEN <<>>
                             ELSE IF n \in DOMAIN call.writes
                             THEN <<call.writes[n]>>
                             ELSE <<memories[n].metadata>>,
                 ![c].pc = "link_write"]

\* lines 449-465: UPDATE memories SET metadata = ... WHERE id = conflict_id,
\* when the SELECT found the row; the UPDATE waits while another call's
\* uncommitted UPDATE holds the row
RememberLinkWrite(c) ==
  LET call == calls[c]
      n == call.conflicts[call.k]
      last == call.k = Len(call.conflicts)
  IN
  /\ c \in 1..Len(calls)
  /\ InFlight(c)
  /\ call.pc = "link_write"
  /\ call.read = <<>> \/ ~LockedByOther(c, n)
  /\ UNCHANGED <<memories, memory_hashes, now, response, inflight,
                 short_term_memories>>
  /\ UNCHANGED gatewayVars
  /\ calls' = [calls EXCEPT
                 ![c].writes =
                   IF call.read = <<>> \/ n \notin Ids THEN @
                   ELSE [x \in DOMAIN @ \cup {n} |->
                           IF x = n THEN LinkBack(call.read[1], call.id)
                           ELSE @[x]],
                 ![c].read = <<>>,
                 ![c].k = IF last THEN @ ELSE @ + 1,
                 ![c].pc = IF last THEN "insert" ELSE "link_read"]

\* lines 467-485: INSERT, commit, answer
RememberCommit(c) ==
  LET call == calls[c]
      row == [id |-> call.id, user_id |-> call.user, text |-> call.text,
              tag |-> call.tag, embedding |-> Embed(call.text),
              created_at |-> CreatedAtDefault,
              metadata |-> NewMetadata(call.tag, call.timestamp,
                                       MemoryHash(call.text, call.tag),
                                       call.last_accessed, call.conflicts)]
      updated == ApplyWrites(memories, call.writes)
  IN
  /\ c \in 1..Len(calls)
  /\ InFlight(c)
  /\ call.pc = "insert"
  /\ call.id \notin Ids
  /\ UNCHANGED <<memory_hashes, now, inflight, short_term_memories>>
  /\ UNCHANGED gatewayVars
  /\ memories' = [i \in Ids \cup {call.id} |->
                    IF i = call.id THEN row ELSE updated[i]]
  /\ calls' = [calls EXCEPT ![c].pc = "done", ![c].status = "stored",
                            ![c].writes = << >>]
  /\ response' = [op |-> "store", user |-> call.user, status |-> "stored",
                  id |-> call.id, text |-> call.text, tag |-> call.tag,
                  timestamp |-> call.timestamp]

\* A statement of lines 445-471 raises (the connection is lost, the
\* statement is cancelled): nothing in the handler catches it, the client
\* gets a 500 and the transaction is never committed.
RememberFail(c) ==
  LET call == calls[c] IN
  /\ c \in 1..Len(calls)
  /\ InFlight(c)
  /\ call.pc \in {"link_read", "link_write", "insert"}
  /\ UNCHANGED <<memory_hashes, now, inflight, short_term_memories>>
  /\ UNCHANGED gatewayVars
  /\ memories' = RolledBack(memories, call.writes)
  /\ calls' = [calls EXCEPT ![c].pc = "done", ![c].status = "500"]
  /\ response' = [op |-> "store", user |-> call.user, status |-> "500"]

\* ------------------------------------------------------------------------
\* DELETE /memories/{memory_id}  (delete_memory)
\* ------------------------------------------------------------------------
RECURSIVE RemoveFirst(_, _)
\* list.remove(x): drops the first occurrence
RemoveFirst(s, x) ==
  IF s = <<>> THEN <<>>
  ELSE IF Head(s) = x THEN Tail(s)
  ELSE <<Head(s)>> \o RemoveFirst(Tail(s), x)

DropKey(md, k) == [x \in DOMAIN md \ {k} |-> md[x]]

\* delete_memory lines 1359-1374: take memory_id out of a neighbour's list
Unlink_KeepFlag(md, memory_id) ==
  IF "conflict_ids" \in DOMAIN md /\ memory_id \in Range(md.conflict_ids)
  THEN LET existing_conflicts == RemoveFirst(md.conflict_ids, memory_id)
       IN  IF existing_conflicts # <<>>
           THEN [md EXCEPT !.conflict_ids = existing_conflicts]
           ELSE DropKey(md, "conflict_ids")
  ELSE md

Unlink(md, memory_id) ==
  IF "conflict_ids" \in DOMAIN md /\ memory_id \in Range(md.conflict_ids)
  THEN LET existing_conflicts == RemoveFirst(md.conflict_ids, memory_id)
       IN  IF existing_conflicts # <<>>
           THEN [md EXCEPT !.conflict_ids = existing_conflicts]
           ELSE DropKey([has_conflicts |-> FALSE] @@ md, "conflict_ids")
  ELSE md

\* delete_memory lines 1347-1357: the neighbours whose lists are repaired
NeighboursToRepair_None(metadata) == {}

NeighboursToRepair(metadata) ==
  IF HasConflicts(metadata) /\ "conflict_ids" \in DOMAIN metadata
  THEN Range(metadata.conflict_ids) ELSE {}

\* delete_memory line 1323: SELECT ... WHERE id = %s AND user_id = %s
OwnedBy_AnyUser(u, memory_id) == memory_id \in Ids

OwnedBy(u, memory_id) ==
  memory_id \in Ids /\ memories[memory_id].user_id = u

DeleteMemory(token, memory_id) ==
  LET u == GetUserFromToken(token) IN
  /\ UNCHANGED gatewayVars
  /\ UNCHANGED inflight
  /\ UNCHANGED checkpointVars
  /\ UNCHANGED now
  /\ IF u = NoUser
     THEN /\ response' = Unauthorized("delete")
          /\ UNCHANGED <<memories, memory_hashes>>
     ELSE IF ~OwnedBy(u, memory_id)
     THEN /\ response' = [op |-> "delete", user |-> u, status |-> "404"]
          /\ UNCHANGED <<memories, memory_hashes>>
     ELSE
       LET r == memories[memory_id]
           metadata == r.metadata
           memory_hash == IF "hash" \in DOMAIN metadata THEN metadata.hash
                          ELSE MemoryHash(r.text, r.tag)
           conflict_ids == NeighboursToRepair(metadata)
       IN
       /\ memory_hashes' = memory_hashes \ {memory_hash}
       /\ memories' =
            [i \in Ids \ {memory_id} |->
               IF i \in conflict_ids
               THEN [memories[i] EXCEPT !.metadata = Unlink(@, memory_id)]
               ELSE memories[i]]
       /\ response' = [op |-> "delete", user |-> u, status |-> "deleted",
                       id |-> memory_id, text |-> r.text, tag |-> r.tag]

\* ------------------------------------------------------------------------
\* POST /memories/search  (search_memories, keyword_search)
\* ------------------------------------------------------------------------
STOP_WORDS ==
  {"the", "a", "an", "and", "or", "but", "in", "on", "at", "to", "for", "of",
   "with", "by"}

\* len(word) of the words of the model
WordLen(w) ==
  CASE w \in {".", "a"} -> 1
    [] w \in {"go", "Go", "an", "or", "in", "on", "at", "to", "of", "by"} -> 2
    [] w \in {"the", "and", "but", "for"} -> 3
    [] OTHER -> 5

\* keyword_search line 494: query.split(), lower-cased, stop words and
\* words of at most two characters dropped
Keywords(query) ==
  {LowerWord(query[k]) : k \in {j \in 1..Len(query) :
       /\ query[j] # " "
       /\ LowerWord(query[j]) \notin STOP_WORDS
       /\ WordLen(query[j]) > 2}}

\* text ILIKE %keyword% : a word of the text equals the keyword, case ignored
ILike(text, keyword) == \E k \in 1..Len(text) : LowerWord(text[k]) = keyword

\* indices of keys, largest key first, equal keys in their given order
\* (list.sort(reverse=True) is stable)
RECURSIVE DescOrder(_, _)
DescOrder(keys, left) ==
  IF left = {} THEN <<>>
  ELSE LET i == CHOOSE a \in left : \A b \in left \ {a} :
                   \/ keys[a] > keys[b]
                   \/ keys[a] = keys[b] /\ a < b
       IN  <<i>> \o DescOrder(keys, left \ {i})

SortDesc(s, keys) ==
  LET order == DescOrder(keys, 1..Len(s))
  IN  [k \in 1..Len(s) |-> s[order[k]]]

\* a row as the semantic query returns it (lines 587-596)
SemanticRow(i, q) ==
  [id |-> i, owner |-> memories[i].user_id, text |-> memories[i].text,
   tag |-> memories[i].tag, metadata |-> memories[i].metadata,
   created_at |-> memories[i].created_at,
   similarity |-> Similarity(memories[i].embedding, q), via |-> "semantic"]

\* keyword_search lines 526-556 and search_memories lines 627-640:
\* rows newest first, metadata rebuilt from the MemoryResponse
KeywordScope_AnyTag(u, tag_filter) == Scope(u, NoTag)

\* keyword_search lines 507-533: WHERE user_id = %s [AND tag = %s]
KeywordScope(u, tag_filter) == Scope(u, tag_filter)

KeywordRows(query, u, limit, tag_filter, exclude_ids) ==
  LET kw == Keywords(query)
      hits == {i \in KeywordScope(u, tag_filter) \ exclude_ids :
                 \E k \in kw : ILike(memories[i].text, k)}
      ids == SortDesc([k \in 1..Cardinality(hits) |->
                         CHOOSE i \in hits :
                           Cardinality({j \in hits : j < i}) = k - 1],
                      [k \in 1..Cardinality(hits) |->
                         LET i == CHOOSE i \in hits :
                               Cardinality({j \in hits : j < i}) = k - 1
                         IN memories[i].created_at * 1000 + i])
      top == Take(ids, limit)
  IN  IF kw = {} THEN <<>>
      ELSE [k \in 1..Len(top) |->
              LET i == top[k]
                  md == memories[i].metadata
              IN [id |-> i, owner |-> memories[i].user_id,
                  text |-> memories[i].text, tag |-> memories[i].tag,
                  metadata |->
                    [timestamp |-> md.timestamp,
                     last_accessed |->
                       IF "last_accessed" \in DOMAIN md THEN md.last_accessed
                       ELSE md.timestamp,
                     tag |-> memories[i].tag],
                  created_at |-> md.timestamp,
                  similarity |-> 70 - (k - 1) * 3, via |-> "keyword"]]

\* lines 587-596: the rows of the semantic query
SemanticRows(query, u, limit, tag_filter, tb) ==
  LET q == Embed(query)
      sem == Nearest(u, tag_filter, q, limit, tb)
  IN  [k \in 1..Len(sem) |-> SemanticRow(sem[k], q)]

\* lines 608-642: the keyword fallback fills the slots the semantic query
\* left free
MergedRows(results, query, u, limit, tag_filter) ==
  IF Len(results) < limit
  THEN results \o KeywordRows(query, u, limit - Len(results), tag_filter,
                              {results[k].id : k \in 1..Len(results)})
  ELSE results

\* line 650: the sort key is (similarity, created_at); created_at is a
\* datetime in a semantic row and a string in a keyword row, and comparing
\* the two raises TypeError
SortRaises(merged) ==
  \E a \in 1..Len(merged), b \in 1..Len(merged) :
    /\ merged[a].similarity = merged[b].similarity
    /\ merged[a].via # merged[b].via

SortRows_BySimilarity(merged) ==
  SortDesc(merged, [k \in 1..Len(merged) |-> merged[k].similarity])

\* line 650: results.sort(key=(similarity, created_at), reverse=True)
SortRows(merged) ==
  SortDesc(merged,
           [k \in 1..Len(merged) |->
              (merged[k].similarity + 100) * 100000 + merged[k].created_at])

\* lines 583-650: semantic rows, keyword fallback, composite sort
HybridRows(query, u, limit, tag_filter, tb) ==
  SortRows(MergedRows(SemanticRows(query, u, limit, tag_filter, tb),
                      query, u, limit, tag_filter))

\* MemoryResponse of a result row (lines 675-683)
ResultEntry(row, current_time) ==
  [id |-> row.id, owner |-> row.owner, text |-> row.text, tag |-> row.tag,
   timestamp |-> row.metadata.timestamp, last_accessed |-> current_time,
   similarity |-> row.similarity, via |-> row.via]

\* SELECT id, text, tag, metadata FROM memories WHERE id = conflict_id
\* (lines 697-708): the row is looked up by id alone
ConflictEntry(i) ==
  LET md == memories[i].metadata IN
  [id |-> i, owner |-> memories[i].user_id, text |-> memories[i].text,
   tag |-> memories[i].tag, timestamp |-> md.timestamp,
   last_accessed |-> IF "last_accessed" \in DOMAIN md THEN md.last_accessed
                     ELSE md.timestamp]

\* lines 685-711: the conflict set anchored at the k-th result
RawConflictSet(rows, k, current_time) ==
  LET seen == {rows[j].id : j \in 1..k}
      fetch == SelectSeq(ConflictIds(rows[k].metadata),
                         LAMBDA c : c \notin seen /\ c \in Ids)
  IN  <<ResultEntry(rows[k], current_time)>>
        \o [j \in 1..Len(fetch) |-> ConflictEntry(fetch[j])]

\* lines 719-750: one step of the near-duplicate filter of a conflict set
DedupStep(unique, c) ==
  LET hits == {j \in 1..Len(unique) :
                 Similarity(Embed(c.text), Embed(unique[j].text)) > 95}
  IN  IF hits = {} THEN Append(unique, c)
      ELSE LET j == CHOOSE a \in hits : \A b \in hits : a <= b
           IN  IF c.timestamp > unique[j].timestamp
               THEN Append(SubSeq(unique, 1, j - 1)
                             \o SubSeq(unique, j + 1, Len(unique)), c)
               ELSE unique

RECURSIVE DedupFrom(_, _)
DedupFrom(unique, rest) ==
  IF rest = <<>> THEN unique
  ELSE DedupFrom(DedupStep(unique, Head(rest)), Tail(rest))

\* lines 713-756: deduplicate, then most recent first
DedupConflictSet(conflicts) ==
  IF Len(conflicts) > 1
  THEN LET unique == DedupFrom(<<>>, conflicts)
       IN  SortDesc(unique, [k \in 1..Len(unique) |-> unique[k].timestamp])
  ELSE conflicts

\* conflict_sets: anchor id -> entries
ConflictSets(rows, current_time) ==
  LET anchors == {k \in 1..Len(rows) : HasConflicts(rows[k].metadata)}
  IN  [a \in {rows[k].id : k \in anchors} |->
         LET k == CHOOSE k \in anchors : rows[k].id = a
         IN  DedupConflictSet(RawConflictSet(rows, k, current_time))]

IdsOfSet(conflict_sets, a) ==
  {a} \cup {conflict_sets[a][j].id : j \in 1..Len(conflict_sets[a])}

\* UnionFind (lines 773-823): ids joined by a chain of conflict sets
Component_OneStep(conflict_sets, S) ==
  S \cup UNION {IdsOfSet(conflict_sets, a) :
                  a \in {b \in DOMAIN conflict_sets :
                           IdsOfSet(conflict_sets, b) \cap S # {}}}

RECURSIVE Component(_, _)
Component(conflict_sets, S) ==
  LET grown == S \cup UNION {IdsOfSet(conflict_sets, a) :
                               a \in {b \in DOMAIN conflict_sets :
                                        IdsOfSet(conflict_sets, b) \cap S # {}}}
  IN  IF grown = S THEN S ELSE Component(conflict_sets, grown)

MemoryGroups(conflict_sets) ==
  LET nodes == UNION {IdsOfSet(conflict_sets, a) : a \in DOMAIN conflict_sets}
  IN  {Component(conflict_sets, {n}) : n \in nodes}

\* lines 830-858: the memory object of a group member, from the results
\* first and from the conflict sets otherwise
GroupObjects(group, entries, conflict_sets) ==
  LET pool == {entries[k] : k \in 1..Len(entries)}
      others == UNION {Range(conflict_sets[a]) : a \in DOMAIN conflict_sets}
      Obj(i) == IF \E e \in pool : e.id = i
                THEN {[x \in DOMAIN e \ {"similarity", "via"} |-> e[x]] :
                        e \in {e \in pool : e.id = i}}
                ELSE {[x \in DOMAIN e \ {"similarity", "via"} |-> e[x]] :
                        e \in {e \in others : e.id = i}}
  IN  UNION {Obj(i) : i \in group}

ConflictGroups(entries, conflict_sets) ==
  {GroupObjects(g, entries, conflict_sets) :
     g \in {g \in MemoryGroups(conflict_sets) : Cardinality(g) >= 2}}

\* lines 666-673: UPDATE memories SET metadata = <row's metadata with
\* last_accessed = current_time> WHERE id = <row's id>, row by row
RECURSIVE TouchRows(_, _, _)
TouchRows(mem, rows, current_time) ==
  IF rows = <<>> THEN mem
  ELSE TouchRows(IF Head(rows).id \in DOMAIN mem
                 THEN [mem EXCEPT ![Head(rows).id].metadata =
                         [last_accessed |-> current_time]
                           @@ Head(rows).metadata]
                 ELSE mem,
                 Tail(rows), current_time)

\* lines 648-981: sort, touch the rows, build conflict sets and groups, answer
SearchRespond(u, merged) ==
  LET rows == SortRows(merged)
      entries == [k \in 1..Len(rows) |-> ResultEntry(rows[k], now)]
      conflict_sets == ConflictSets(rows, now)
      conflict_groups == ConflictGroups(entries, conflict_sets)
  IN  IF SortRaises(merged)
      THEN /\ response' = [op |-> "search", user |-> u, status |-> "500"]
           /\ UNCHANGED memories
      ELSE /\ memories' = TouchRows(memories, rows, now)
           /\ response' =
                [op |-> "search", user |-> u, status |-> "ok",
                 results |-> entries,
                 conflict_groups |-> conflict_groups,
                 conflict_sets |->
                   IF conflict_groups = {}
                   THEN {Range(conflict_sets[a]) : a \in DOMAIN conflict_sets}
                   ELSE {}]

\* POST /memories/search with nothing else running during the request
\* lines 570-577 and 1057-1063: a tag filter outside the closed set
TagFilterRejected_Never(tag_filter) == FALSE

TagFilterRejected(tag_filter) ==
  tag_filter # NoTag /\ tag_filter \notin VALID_TAGS

SearchMemories(token, query, limit, tag_filter, tb) ==
  LET u == GetUserFromToken(token) IN
  /\ UNCHANGED gatewayVars
  /\ UNCHANGED inflight
  /\ UNCHANGED checkpointVars
  /\ UNCHANGED <<memory_hashes, now>>
  /\ IF u = NoUser
     THEN /\ response' = Unauthorized("search")
          /\ UNCHANGED memories
     ELSE IF TagFilterRejected(tag_filter)
     THEN /\ response' = [op |-> "search", user |-> u, status |-> "400"]
          /\ UNCHANGED memories
     ELSE IF limit < 0
     THEN \* LIMIT must not be negative: the query raises
          /\ response' = [op |-> "search", user |-> u, status |-> "500"]
          /\ UNCHANGED memories
     ELSE SearchRespond(u, MergedRows(SemanticRows(query, u, limit,
                                                   tag_filter, tb),
                                      query, u, limit, tag_filter))

\* POST /memories/search, first part: up to the semantic query (lines
\* 558-596).  Other requests may commit before the request goes on.
SearchBegin(token, query, limit, tag_filter, tb) ==
  LET u == GetUserFromToken(token) IN
  /\ ~inflight.active
  /\ u # NoUser
  /\ ~TagFilterRejected(tag_filter)
  /\ limit >= 0
  /\ inflight' = [active |-> TRUE, user |-> u, query |-> query,
                  limit |-> limit, tag_filter |-> tag_filter,
                  results |-> SemanticRows(query, u, limit, tag_filter, tb)]
  /\ UNCHANGED <<memories, memory_hashes, now, response>>
  /\ UNCHANGED gatewayVars
  /\ UNCHANGED checkpointVars

\* POST /memories/search, second part: keyword fallback to the answer
\* (lines 608-981), on the store as it is by then
SearchFinish ==
  /\ inflight.active
  /\ SearchRespond(inflight.user,
                   MergedRows(inflight.results, inflight.query, inflight.user,
                              inflight.limit, inflight.tag_filter))
  /\ inflight' = NoSearch
  /\ UNCHANGED <<memory_hashes, now>>
  /\ UNCHANGED gatewayVars
  /\ UNCHANGED checkpointVars

\* ------------------------------------------------------------------------
\* GET /memories  (list_memories)
\* ------------------------------------------------------------------------
\* MemoryResponse of a listed row (lines 1081-1090)
ListEntry(i) ==
  LET md == memories[i].metadata IN
  [id |-> i, owner |-> memories[i].user_id, text |-> memories[i].text,
   tag |-> memories[i].tag, timestamp |-> md.timestamp,
   last_accessed |-> md.last_accessed]

\* lines 1072-1078: ... WHERE user_id = %s [AND tag = %s]
\* ORDER BY created_at DESC LIMIT %s
ListRows(u, tag, limit) ==
  LET S == Scope(u, tag)
      ids == [k \in 1..Cardinality(S) |->
                CHOOSE i \in S : Cardinality({j \in S : j < i}) = k - 1]
      sorted == SortDesc(ids, [k \in 1..Len(ids) |->
                                 memories[ids[k]].created_at * 1000 + ids[k]])
  IN  Take(sorted, limit)

\* GET /memories (lines 1049-1102); tag = NoTag: no tag, or an empty one
ListMemories(token, tag, limit) ==
  LET u == GetUserFromToken(token) IN
  /\ UNCHANGED <<memories, memory_hashes, now, inflight>>
  /\ UNCHANGED gatewayVars
  /\ UNCHANGED checkpointVars
  /\ IF u = NoUser THEN response' = Unauthorized("list")
     ELSE IF TagFilterRejected(tag)
     THEN response' = [op |-> "list", user |-> u, status |-> "400"]
     ELSE IF limit < 0
     THEN \* LIMIT must not be negative: the query raises
          response' = [op |-> "list", user |-> u, status |-> "500"]
     ELSE LET rows == ListRows(u, tag, limit) IN
          response' = [op |-> "list", user |-> u, status |-> "ok",
                       memories |-> [k \in 1..Len(rows) |-> ListEntry(rows[k])],
                       count |-> Len(rows)]

\* ------------------------------------------------------------------------
\* POST /checkpoint (store_checkpoint), POST /resume (resume_checkpoint)
\* ------------------------------------------------------------------------
NoTitle == "<no title>"     \* CheckpointRequest.title = None

\* SELECT ... FROM short_term_memories WHERE user_id = %s
CheckpointRows_AnyUser(u) == short_term_memories

CheckpointRows(u) == {r \in short_term_memories : r.user_id = u}

\* lines 1243-1252: INSERT ... ON CONFLICT (user_id) DO UPDATE SET title,
\* content, created_at; the conflict target is the unique index on user_id
Upsert_AlwaysInsert(table, u, title, content, t) ==
  table \cup {[user_id |-> u, title |-> title, content |-> content,
               created_at |-> t]}

Upsert(table, u, title, content, t) ==
  {r \in table : r.user_id # u}
    \cup {[user_id |-> u, title |-> title, content |-> content,
           created_at |-> t]}

\* lines 1239-1240 and 1263-1268; existing: the rows the SELECT saw, of which
\* fetchone() takes one
CheckpointResult(u, existing) ==
  [op |-> "checkpoint", user |-> u, status |-> "ok",
   overwrote |-> existing # {},
   previous_checkpoint_time |->
     IF existing # {} THEN (CHOOSE r \in existing : TRUE).created_at
     ELSE NoTime]

\* a checkpoint call: what it was given, the time its transaction began
\* (the value of NOW() in it), the rows its SELECT saw, and where it stands
CheckpointCall(u, title, content, t, existing, pc) ==
  [op |-> "checkpoint", user |-> u, title |-> title, content |-> content,
   txn_time |-> t, existing |-> existing, pc |-> pc]

\* POST /checkpoint (lines 1223-1272), run without interruption
StoreCheckpoint(token, title, content) ==
  LET u == GetUserFromToken(token)
      existing == CheckpointRows(u)
  IN
  /\ UNCHANGED <<memories, memory_hashes, inflight>>
  /\ UNCHANGED gatewayVars
  /\ IF u = NoUser
     THEN /\ response' = Unauthorized("checkpoint")
          /\ UNCHANGED <<now, short_term_memories, calls>>
     ELSE /\ short_term_memories' =
               Upsert(short_term_memories, u, title, content, now)
          /\ now' = now + 1
          /\ response' = CheckpointResult(u, existing)
          /\ calls' = Append(calls, CheckpointCall(u, title, content, now,
                                                   existing, "done"))

\* lines 1229-1240: the call opens its transaction and reads the user's row
CheckpointBegin(token, title, content) ==
  LET u == GetUserFromToken(token) IN
  /\ u # NoUser
  /\ UNCHANGED <<memories, memory_hashes, inflight, response>>
  /\ UNCHANGED gatewayVars
  /\ UNCHANGED short_term_memories
  /\ now' = now + 1
  /\ calls' = Append(calls, CheckpointCall(u, title, content, now,
                                           CheckpointRows(u), "upsert"))

\* lines 1243-1268: the call writes its row, commits and answers
CheckpointCommit(c) ==
  /\ c \in 1..Len(calls)
  /\ calls[c].op = "checkpoint"
  /\ calls[c].pc = "upsert"
  /\ UNCHANGED <<memories, memory_hashes, inflight, now>>
  /\ UNCHANGED gatewayVars
  /\ short_term_memories' =
       Upsert(short_term_memories, calls[c].user, calls[c].title,
              calls[c].content, calls[c].txn_time)
  /\ response' = CheckpointResult(calls[c].user, calls[c].existing)
  /\ calls' = [calls EXCEPT ![c].pc = "done"]

\* POST /resume (lines 1274-1309)
ResumeCheckpoint(token) ==
  LET u == GetUserFromToken(token)
      rows == CheckpointRows(u)
  IN
  /\ UNCHANGED <<memories, memory_hashes, inflight, now>>
  /\ UNCHANGED gatewayVars
  /\ UNCHANGED checkpointVars
  /\ IF u = NoUser THEN response' = Unauthorized("resume")
     ELSE IF rows = {}
     THEN response' = [op |-> "resume", user |-> u, status |-> "ok",
                       exists |-> FALSE]
     ELSE \E r \in rows :
            response' = [op |-> "resume", user |-> u, status |-> "ok",
                         exists |-> TRUE, owner |-> r.user_id,
                         content |-> r.content, title |-> r.title,
                         created_at |-> r.created_at]

\* ------------------------------------------------------------------------
\* Auth gateway (src/proxy_sse.py)
\* ------------------------------------------------------------------------
NoToken == "<no token>"     \* absent or empty query parameter / header
NoSid == "<no session>"
SessionIds == {"s1", "s2"}

\* validate_token: SELECT user_id FROM auth_tokens WHERE token = t AND is_active
ValidateToken_AnyRow(t) ==
  IF t \in Tokens THEN auth_tokens[t].user_id ELSE NoUser

ValidateToken(t) ==
  IF t \in Tokens /\ auth_tokens[t].is_active THEN auth_tokens[t].user_id
  ELSE NoUser

\* lines 140-144 and 288-291: the query parameter, else the Bearer header
RequestToken(query_token, header_token) ==
  IF query_token # NoToken THEN query_token ELSE header_token

\* GET|POST /sse (sse_passthrough lines 134-178): authenticate the connection
SseOpen(query_token, header_token) ==
  LET token == RequestToken(query_token, header_token)
      user_id == ValidateToken(token)
      conn == Len(streams) + 1
  IN
  /\ Len(streams) < MaxStreams
  /\ UNCHANGED <<memories, memory_hashes, now, inflight>>
  /\ UNCHANGED checkpointVars
  /\ UNCHANGED <<session_store, first_bound, session_tokens>>
  /\ forwarded' = NoForward
  /\ IF token = NoToken \/ user_id = NoUser
     THEN /\ response' = [op |-> "sse", user |-> NoUser, status |-> "401"]
          /\ UNCHANGED streams
     ELSE /\ streams' = Append(streams,
                               [user_id |-> user_id, token |-> token,
                                first_chunk_sent |-> FALSE, ended |-> FALSE])
          /\ response' = [op |-> "sse", user |-> user_id, status |-> "200",
                          conn |-> conn]

\* lines 230-233: the session id is already held by another user
FixationAttempt_Never(sid, user_id) == FALSE

FixationAttempt(sid, user_id) ==
  sid \in DOMAIN session_store /\ session_store[sid].user_id # user_id

\* What travels on an SSE stream.  A chunk received from downstream is
\* described by what the generator looks at: endpoint (it contains
\* 'event: endpoint') and sid (the first session_id=<hex> in it, NoSid when
\* there is none).  The other frames are byte strings the gateway holds.
Chunk(endpoint, sid) == [kind |-> "chunk", endpoint |-> endpoint, sid |-> sid]
Literal(name) == [kind |-> name, endpoint |-> FALSE, sid |-> NoSid]

\* lines 205-211: the two 'event: message' frames written out in the code
handshake_response == Literal("handshake_response")

\* lines 203-213: what is yielded ahead of the chunk
Handshake(c, endpoint) ==
  IF ~streams[c].first_chunk_sent /\ endpoint THEN <<handshake_response>>
  ELSE << >>

\* event_generator lines 199-247: one chunk from downstream on connection c
SseChunk(c, endpoint, sid) ==
  LET user_id == streams[c].user_id
      token == streams[c].token
      chunk == Chunk(endpoint, sid)
  IN
  /\ c \in 1..Len(streams)
  /\ ~streams[c].ended
  /\ UNCHANGED <<memories, memory_hashes, now, inflight>>
  /\ UNCHANGED checkpointVars
  /\ UNCHANGED session_tokens
  /\ forwarded' = NoForward
  /\ streams' = [streams EXCEPT ![c].first_chunk_sent = @ \/ endpoint]
  /\ IF endpoint /\ sid # NoSid
     THEN IF FixationAttempt(sid, user_id)
          THEN \* session fixation attempt: the mapping is not stored, and
               \* 'continue' goes to the next chunk before the yield
               /\ UNCHANGED <<session_store, first_bound>>
               /\ response' = [op |-> "chunk", user |-> user_id,
                               status |-> "fixation", sid |-> sid,
                               emitted |-> Handshake(c, endpoint)]
          ELSE /\ session_store' =
                    [x \in DOMAIN session_store \cup {sid} |->
                       IF x = sid THEN [user_id |-> user_id, token |-> token]
                       ELSE session_store[x]]
               /\ first_bound' =
                    IF sid \in DOMAIN first_bound THEN first_bound
                    ELSE [x \in DOMAIN first_bound \cup {sid} |->
                            IF x = sid THEN user_id ELSE first_bound[x]]
               /\ response' = [op |-> "chunk", user |-> user_id,
                               status |-> "bound", sid |-> sid,
                               emitted |->
                                 Handshake(c, endpoint) \o <<chunk>>]
     ELSE /\ UNCHANGED <<session_store, first_bound>>
          /\ response' = [op |-> "chunk", user |-> user_id,
                          status |-> "passthrough", sid |-> NoSid,
                          emitted |-> Handshake(c, endpoint) \o <<chunk>>]

\* event_generator lines 248-258: the stream on connection c ends.  cause is
\* "eof" (downstream finished, the loop falls through), "StreamClosed" or
\* "Exception"; the session table is left as it is.
SseEnd(c, cause) ==
  /\ c \in 1..Len(streams)
  /\ ~streams[c].ended
  /\ UNCHANGED <<memories, memory_hashes, now, inflight>>
  /\ UNCHANGED checkpointVars
  /\ UNCHANGED <<session_store, first_bound, session_tokens>>
  /\ forwarded' = NoForward
  /\ streams' = [streams EXCEPT ![c].ended = TRUE]
  /\ response' = [op |-> "end", user |-> streams[c].user_id,
                  status |-> cause,
                  emitted |->
                    IF cause = "StreamClosed"
                    THEN <<Literal("error: stream_closed")>>
                    ELSE IF cause = "Exception"
                    THEN <<Literal("error: stream_error")>>
                    ELSE << >>]

\* A request body.  kind: "empty" (no body), "text" (not JSON), "bytes" (not
\* UTF-8), "scalar" (JSON that is not an object), "object".  For an object:
\* rpc is its "method"; params is "absent", "object", "null", "list" (a list
\* without the string "arguments") or "list_arguments" (a list holding it);
\* arguments is "absent", "object", "null" or "list"; user_token is the value
\* under params.arguments.user_token, NoToken when there is none.
Body(kind, rpc, params, arguments, user_token) ==
  [kind |-> kind, rpc |-> rpc, params |-> params, arguments |-> arguments,
   user_token |-> user_token]

\* an exception the handler does not catch: the request is not sent
Raised == [kind |-> "raise"]

\* lines 326-343: what the injection does to the body
InjectToken_KeepClientValue(method, body, token) ==
  IF method # "POST" \/ body.kind = "empty" THEN body
  ELSE IF body.kind = "text" THEN body
  ELSE IF body.kind \in {"bytes", "scalar"} THEN Raised
  ELSE IF body.rpc # "tools/call" THEN body
  ELSE IF body.params \in {"absent", "list"} THEN body
  ELSE IF body.params \in {"null", "list_arguments"} THEN Raised
  ELSE IF body.arguments = "absent" THEN body
  ELSE IF body.arguments # "object" THEN Raised
  ELSE IF body.user_token # NoToken THEN body
  ELSE [body EXCEPT !.user_token = token]

InjectToken(method, body, token) ==
  IF method # "POST" \/ body.kind = "empty" THEN body
  ELSE IF body.kind = "text" THEN body            \* JSONDecodeError, caught
  ELSE IF body.kind = "bytes" THEN Raised        \* UnicodeDecodeError
  ELSE IF body.kind = "scalar" THEN Raised       \* no .get on the value
  ELSE IF body.rpc # "tools/call" THEN body
  ELSE IF body.params = "absent" THEN body
  ELSE IF body.params = "null" THEN Raised       \* 'arguments' in None
  ELSE IF body.params = "list" THEN body
  ELSE IF body.params = "list_arguments" THEN Raised
  ELSE IF body.arguments = "absent" THEN body
  ELSE IF body.arguments # "object" THEN Raised  \* item assignment fails
  ELSE [body EXCEPT !.user_token = token]

\* lines 296-299: the principal a session id stands for
SessionData_LatestStream(session_id) == streams[Len(streams)]

SessionData(session_id) == session_store[session_id]

\* ANY /messages/{path} (messages_passthrough lines 280-360)
MessagesPassthrough(method, query_token, header_token, session_id, body) ==
  LET own == RequestToken(query_token, header_token)
      by_session == own = NoToken
      token == IF by_session THEN SessionData(session_id).token ELSE own
      user_id == IF by_session THEN SessionData(session_id).user_id
                 ELSE ValidateToken(own)
      out == InjectToken(method, body, token)
  IN
  /\ UNCHANGED <<memories, memory_hashes, now, inflight>>
  /\ UNCHANGED checkpointVars
  /\ UNCHANGED <<session_store, streams, first_bound, session_tokens>>
  /\ IF by_session /\ ~(session_id # NoSid /\ session_id \in DOMAIN session_store)
     THEN /\ response' = [op |-> "messages", user |-> NoUser, status |-> "401"]
          /\ forwarded' = NoForward
     ELSE IF user_id = NoUser
     THEN /\ response' = [op |-> "messages", user |-> NoUser, status |-> "401"]
          /\ forwarded' = NoForward
     ELSE IF out.kind = "raise"
     THEN /\ response' = [op |-> "messages", user |-> user_id,
                          status |-> "500"]
          /\ forwarded' = NoForward
     ELSE /\ response' = [op |-> "messages", user |-> user_id,
                          status |-> "200"]
          /\ forwarded' =
               [sent |-> TRUE, method |-> method, session_id |-> session_id,
                own_token |-> own, x_user_token |-> token,
                x_user_id |-> user_id, received |-> body, body |-> out]

\* ------------------------------------------------------------------------
\* OAuth endpoints of the gateway (src/proxy_sse.py lines 410-497)
\* ------------------------------------------------------------------------
TOKEN_EXCHANGE == "urn:ietf:params:oauth:grant-type:token-exchange"

\* lines 476-482: SELECT token, user_id FROM auth_tokens WHERE is_active
\* LIMIT 1, with no ORDER BY: any one of the active rows
AnyActiveToken == {t \in Tokens : auth_tokens[t].is_active}

\* GET /oauth/authorize: redirects to redirect_uri with a fresh random code,
\* which the gateway does not keep
AuthorizeEndpoint ==
  /\ UNCHANGED <<memories, memory_hashes, now, inflight>>
  /\ UNCHANGED checkpointVars
  /\ UNCHANGED <<session_store, streams, first_bound, session_tokens>>
  /\ forwarded' = NoForward
  /\ response' = [op |-> "authorize", user |-> NoUser, status |-> "302"]

\* POST /oauth/token.  subject_token is NoToken when the form has none or an
\* empty one; the form's code, client_id, code_verifier and redirect_uri are
\* not read by the handler.
TokenEndpoint(grant_type, subject_token) ==
  LET user_id == ValidateToken(subject_token) IN
  /\ UNCHANGED <<memories, memory_hashes, now, inflight>>
  /\ UNCHANGED checkpointVars
  /\ UNCHANGED <<session_store, streams, first_bound, session_tokens>>
  /\ forwarded' = NoForward
  /\ IF grant_type \notin {"authorization_code", TOKEN_EXCHANGE}
     THEN response' = [op |-> "token", user |-> NoUser, status |-> "400"]
     ELSE IF grant_type = TOKEN_EXCHANGE
     THEN IF subject_token = NoToken \/ user_id = NoUser
          THEN response' = [op |-> "token", user |-> NoUser, status |-> "400"]
          ELSE response' = [op |-> "token", user |-> user_id,
                            status |-> "200", access_token |-> subject_token]
     ELSE IF AnyActiveToken = {}
     THEN \* the HTTPException(400) is caught by the handler's own except
          response' = [op |-> "token", user |-> NoUser, status |-> "500"]
     ELSE \E t \in AnyActiveToken :
            response' = [op |-> "token", user |-> auth_tokens[t].user_id,
                         status |-> "200", access_token |-> t]

\* ------------------------------------------------------------------------
\* GET /memories/prune (src/memory_server.py lines 1406-1495)
\* ------------------------------------------------------------------------
Day == 10                   \* clock ticks in a day
ARCHIVE_AGE_DAYS == 90
ACCESS_THRESHOLD_DAYS == 30
CORE_TAGS == {"identity", "value"}

\* line 1412: datetime.now(datetime.timezone.utc).  datetime is the class
\* (lines 10 and 15), which has no attribute timezone: AttributeError.
PruneClock == Raised

\* metadata.get('archived')
Archived(md) == "archived" \in DOMAIN md /\ md.archived

\* prune_memories: the handler raises at its first statement, before it
\* reads or writes a row (the statements of lines 1413-1487 are never run)
PruneMemories(token) ==
  LET u == GetUserFromToken(token) IN
  /\ UNCHANGED <<memories, memory_hashes, now, inflight>>
  /\ UNCHANGED gatewayVars
  /\ UNCHANGED checkpointVars
  /\ IF u = NoUser THEN response' = Unauthorized("prune")
     ELSE IF PruneClock = Raised
     THEN response' = [op |-> "prune", user |-> u, status |-> "500"]
     ELSE FALSE

\* ------------------------------------------------------------------------
\* Tool dispatcher (src/memory_mcp_server.py)
\* ------------------------------------------------------------------------
ToolNames == {"store_memory", "search_memory", "delete_memory", "list_memories"}

\* os.environ USER_TOKEN / API_ACCESS_TOKEN: unset where the dispatcher runs
\* behind the gateway
env_token == NoToken

\* lines 198-210: the session the call is filed under
SessionOf(context_session, user_token) ==
  IF context_session # NoSid THEN context_session ELSE "global_session"

\* lines 215-236: the table after the call has filed its token
FiledTokens(session_id, t) ==
  IF t = NoToken THEN session_tokens
  ELSE [x \in DOMAIN session_tokens \cup {session_id} |->
          IF x = session_id THEN t ELSE session_tokens[x]]

\* handle_call_tool (lines 187-240) up to the request it sends to the memory
\* engine.  context_session: the session id found on the call's context,
\* NoSid when it has none; user_token: arguments['user_token'], NoToken when
\* the arguments carry none.  authorization is the Bearer token of the
\* request sent to the engine.
HandleCallTool(name, context_session, user_token) ==
  LET session_id == SessionOf(context_session, user_token)
      filed == FiledTokens(session_id, user_token)
      tokens == IF session_id \in DOMAIN filed THEN filed
                ELSE FiledTokens(session_id, env_token)
  IN
  /\ UNCHANGED <<memories, memory_hashes, now, inflight>>
  /\ UNCHANGED checkpointVars
  /\ UNCHANGED <<session_store, streams, first_bound, forwarded>>
  /\ session_tokens' = tokens
  /\ IF session_id \notin DOMAIN tokens
     THEN response' = [op |-> "tool", user |-> NoUser, status |-> "no token",
                       name |-> name, authorization |-> NoToken]
     ELSE response' = [op |-> "tool",
                       user |-> GetUserFromToken(tokens[session_id]),
                       status |-> "called", name |-> name,
                       authorization |-> tokens[session_id]]

\* ------------------------------------------------------------------------
\* Specifications of the memory engine, handlers run one at a time.
\* The clock moves on between one id assignment and the next: a handler that
\* reaches the insert has run the embedding model and several round trips to
\* the store.
\* ------------------------------------------------------------------------
TextInputs == { <<"night">>, <<"Night", " ">>, <<"morning">>, <<"evening">> }
TagInputs == {"preference", "tool", "mood"}
TokenInputs == {"tA", "tB", "tX"}
TieBreaks == {"asc", "desc"}
IdInputs == (FirstNow - 1)..(FirstNow + MaxStores)

Init ==
  /\ memories = << >>
  /\ memory_hashes = {}
  /\ now = FirstNow
  /\ response = NoResponse
  /\ inflight = NoSearch
  /\ session_store = << >>
  /\ session_tokens = << >>
  /\ streams = << >>
  /\ first_bound = << >>
  /\ forwarded = NoForward
  /\ short_term_memories = {}
  /\ calls = << >>

\* Spec: remember and forget
Next ==
  \/ /\ now < FirstNow + MaxStores
     /\ \E t \in TokenInputs, x \in TextInputs, g \in TagInputs,
          tb \in TieBreaks :
          StoreMemory(t, x, g, NoTime, NoTime, tb)
  \/ \E t \in TokenInputs, i \in IdInputs : DeleteMemory(t, i)

Spec == Init /\ [][Next]_vars

\* SpecRecall: remember, forget and recall.  The store starts with one
\* record of user uA and one of user uB, left by two earlier remembers.
MaxRecallStores == 1

SeedRow(i, u, text, tag) ==
  [id |-> i, user_id |-> u, text |-> text, tag |-> tag,
   embedding |-> Embed(text), created_at |-> i,
   metadata |-> NewMetadata(tag, i, MemoryHash(text, tag), i, <<>>)]

InitRecall ==
  /\ memories =
       (FirstNow - 2) :> SeedRow(FirstNow - 2, "uA", <<"night">>, "tool")
       @@ (FirstNow - 1) :> SeedRow(FirstNow - 1, "uB", <<"night">>,
                                    "preference")
  /\ memory_hashes = {MemoryHash(<<"night">>, "tool"),
                      MemoryHash(<<"night">>, "preference")}
  /\ now = FirstNow
  /\ response = NoResponse
  /\ inflight = NoSearch
  /\ session_store = << >>
  /\ session_tokens = << >>
  /\ streams = << >>
  /\ first_bound = << >>
  /\ forwarded = NoForward
  /\ short_term_memories = {}
  /\ calls = << >>

RecallTexts == { <<"night">>, <<"morning">> }
RecallTags == {"preference", "tool"}
RecallTokens == {"tA", "tB"}
QueryInputs == { <<"the", "Night">> }
LimitInputs == {1, 10}
RecallIds == (FirstNow - 2)..(FirstNow + MaxRecallStores)
FilterInputs == {NoTag, "preference"}

NextRecall ==
  \/ /\ now < FirstNow + MaxRecallStores
     /\ \E t \in RecallTokens, x \in RecallTexts, g \in RecallTags :
          StoreMemory(t, x, g, NoTime, NoTime, "asc")
  \/ \E t \in RecallTokens, i \in RecallIds : DeleteMemory(t, i)
  \/ \E t \in RecallTokens, x \in QueryInputs, n \in LimitInputs,
        g \in FilterInputs, tb \in TieBreaks :
       SearchMemories(t, x, n, g, tb)

SpecRecall == InitRecall /\ [][NextRecall]_vars

\* SpecQuota: remember, forget and recall of a user close to the quota.
\* User uA starts with MEMORY_LIMIT - QuotaHeadroom records of tag goal, far
\* from each other and from every other text, left by earlier remembers.
QuotaHeadroom == 1
MaxQuotaStores == QuotaHeadroom + 1
SeedCount == MEMORY_LIMIT - QuotaHeadroom
SeedIds == (FirstNow - SeedCount)..(FirstNow - 1)

QuotaTexts == { <<"night">>, <<"morning">>, <<"evening">> }

InitQuota ==
  /\ memories = [i \in SeedIds |->
                   SeedRow(i, "uA", <<SeedWords[FirstNow - i]>>, "goal")]
  /\ memory_hashes = {MemoryHash(<<SeedWords[FirstNow - i]>>, "goal") :
                        i \in SeedIds}
  /\ now = FirstNow
  /\ response = NoResponse
  /\ inflight = NoSearch
  /\ session_store = << >>
  /\ session_tokens = << >>
  /\ streams = << >>
  /\ first_bound = << >>
  /\ forwarded = NoForward
  /\ short_term_memories = {}
  /\ calls = << >>

NextQuota ==
  \/ /\ now < FirstNow + MaxQuotaStores
     /\ \E x \in QuotaTexts :
          StoreMemory("tA", x, "preference", NoTime, NoTime, "asc")
  \/ /\ now < FirstNow + MaxQuotaStores
     /\ StoreMemory("tA", <<"go">>, "bogus", NoTime, NoTime, "asc")
  \/ \E i \in (FirstNow - 1)..(FirstNow + MaxQuotaStores) :
       DeleteMemory("tA", i)
  \/ SearchMemories("tA", <<"night">>, 2, NoTag, "asc")

SpecQuota == InitQuota /\ [][NextQuota]_vars

\* SpecDedup: remember and forget of texts that are near one another.
\* User uA starts with DUP_SCAN_LIMIT records of tag preference that are far
\* from every text of the behaviour, left by earlier remembers.
MaxDedupStores == 2
DedupSeedIds == (FirstNow - DUP_SCAN_LIMIT)..(FirstNow - 1)
DedupTexts == { <<"night">>, <<"night", ".">>, <<"Night", " ">> }
DedupTags == {"preference", "tool"}
DedupTokens == {"tA", "tB"}

InitDedup ==
  /\ memories = [i \in DedupSeedIds |->
                   SeedRow(i, "uA", <<SeedWords[FirstNow - i]>>, "preference")]
  /\ memory_hashes = {MemoryHash(<<SeedWords[FirstNow - i]>>, "preference") :
                        i \in DedupSeedIds}
  /\ now = FirstNow
  /\ response = NoResponse
  /\ inflight = NoSearch
  /\ session_store = << >>
  /\ session_tokens = << >>
  /\ streams = << >>
  /\ first_bound = << >>
  /\ forwarded = NoForward
  /\ short_term_memories = {}
  /\ calls = << >>

NextDedup ==
  \/ /\ now < FirstNow + MaxDedupStores
     /\ \E t \in DedupTokens, x \in DedupTexts, g \in DedupTags :
          StoreMemory(t, x, g, NoTime, NoTime, "asc")
  \/ \E t \in DedupTokens, i \in (FirstNow - 1)..(FirstNow + MaxDedupStores) :
       DeleteMemory(t, i)

SpecDedup == InitDedup /\ [][NextDedup]_vars

\* SpecGroups: one user builds a chain of conflicting records, recalls and
\* forgets.
MaxGroupStores == 3
GroupTexts == { <<"night">>, <<"morning">>, <<"evening">>, <<"go">> }
GroupQueries == { <<"night">>, <<"morning">> }
GroupLimits == {1, 10}

NextGroups ==
  \/ /\ now < FirstNow + MaxGroupStores
     /\ \E x \in GroupTexts :
          StoreMemory("tA", x, "preference", NoTime, NoTime, "asc")
  \/ \E i \in FirstNow..(FirstNow + MaxGroupStores) : DeleteMemory("tA", i)
  \/ \E q \in GroupQueries, n \in GroupLimits :
       SearchMemories("tA", q, n, NoTag, "asc")

SpecGroups == Init /\ [][NextGroups]_vars

\* SpecHybrid: a recall runs in two steps, and remembers of other requests
\* may commit between its semantic query and its keyword
\* fallback.  User uA starts with one record, left by an earlier remember.
MaxHybridStores == 2
HybridTexts == { <<"night">>, <<"morning">> }
HybridTags == {"preference", "tool"}
HybridQueries == { <<"the", "Night">>, <<"morning">> }
HybridLimits == {1, 10}
HybridFilters == {NoTag, "preference"}

InitHybrid ==
  /\ memories =
       (FirstNow - 1) :> SeedRow(FirstNow - 1, "uA", <<"evening">>,
                                 "preference")
  /\ memory_hashes = {MemoryHash(<<"evening">>, "preference")}
  /\ now = FirstNow
  /\ response = NoResponse
  /\ inflight = NoSearch
  /\ session_store = << >>
  /\ session_tokens = << >>
  /\ streams = << >>
  /\ first_bound = << >>
  /\ forwarded = NoForward
  /\ short_term_memories = {}
  /\ calls = << >>

NextHybrid ==
  \/ /\ now < FirstNow + MaxHybridStores
     /\ \E x \in HybridTexts, g \in HybridTags :
          StoreMemory("tA", x, g, NoTime, NoTime, "asc")
  \/ \E q \in HybridQueries, n \in HybridLimits, f \in HybridFilters :
       SearchBegin("tA", q, n, f, "asc")
  \/ SearchFinish

SpecHybrid == InitHybrid /\ [][NextHybrid]_vars

\* SpecValidation: remember, recall and inventory with inputs the handlers
\* may refuse
MaxValidationStores == 2
ValidationTokens == {"tA", "tB"}
ValidationTexts == { <<>>, <<"night">> }
ValidationTags == {"preference", "mood"}
ValidationFilters == {NoTag, "preference", "mood"}
ValidationLimits == {-1, 0, 1, 10}

NextValidation ==
  \/ /\ now < FirstNow + MaxValidationStores
     /\ \E t \in ValidationTokens, x \in ValidationTexts,
           g \in ValidationTags :
          StoreMemory(t, x, g, NoTime, NoTime, "asc")
  \/ \E t \in ValidationTokens, n \in ValidationLimits,
        f \in ValidationFilters :
       SearchMemories(t, <<"night">>, n, f, "asc")
  \/ \E t \in ValidationTokens, n \in ValidationLimits,
        f \in ValidationFilters :
       ListMemories(t, f, n)

SpecValidation == Init /\ [][NextValidation]_vars

\* SpecCheckpoint: checkpoint and resume, handlers run one at a time
MaxCheckpoints == 3
CheckpointTokens == {"tA", "tB", "tX"}
TitleInputs == {"t1", NoTitle}
ContentInputs == {"v1", "v2"}

NextCheckpoint ==
  \/ /\ now < FirstNow + MaxCheckpoints
     /\ \E t \in CheckpointTokens, ti \in TitleInputs, co \in ContentInputs :
          StoreCheckpoint(t, ti, co)
  \/ \E t \in CheckpointTokens : ResumeCheckpoint(t)

SpecCheckpoint == Init /\ [][NextCheckpoint]_vars

\* SpecCheckpointRace: checkpoint calls served by several server processes
\* on one database; a call's SELECT and its upsert are separate statements
\* and other calls may run between them.
MaxRaceCheckpoints == 3

NextCheckpointRace ==
  \/ /\ now < FirstNow + MaxRaceCheckpoints
     /\ \E t \in {"tA", "tB"}, co \in ContentInputs :
          CheckpointBegin(t, NoTitle, co)
  \/ \E c \in 1..MaxRaceCheckpoints : CheckpointCommit(c)
  \/ \E t \in {"tA", "tB"} : ResumeCheckpoint(t)

SpecCheckpointRace == Init /\ [][NextCheckpointRace]_vars

\* SpecQuotaRace: remember calls in flight at once for a user one record
\* below the limit
MaxQuotaRaceCalls == 2
QuotaRaceTexts == { <<"night">>, <<"morning">>, <<"go">> }

NextQuotaRace ==
  \/ /\ Len(calls) < MaxQuotaRaceCalls
     /\ \E x \in QuotaRaceTexts : RememberBegin("tA", x, "preference")
  \/ \E c \in 1..MaxQuotaRaceCalls :
       \/ RememberDupScan(c)
       \/ RememberConflictScan(c)
       \/ RememberLinkRead(c)
       \/ RememberLinkWrite(c)
       \/ RememberCommit(c)
       \/ RememberFail(c)

SpecQuotaRace == InitQuota /\ [][NextQuotaRace]_vars

\* SpecRememberRace: remember calls in flight at once, and forgets that run
\* between their statements
MaxRaceCalls == 2
RaceTexts == { <<"night">>, <<"morning">> }

NextRememberRace ==
  \/ /\ Len(calls) < MaxRaceCalls
     /\ \E x \in RaceTexts : RememberBegin("tA", x, "preference")
  \/ \E c \in 1..MaxRaceCalls :
       \/ RememberDupScan(c)
       \/ RememberConflictScan(c)
       \/ RememberLinkRead(c)
       \/ RememberLinkWrite(c)
       \/ RememberCommit(c)
       \/ RememberFail(c)
  \/ /\ NoPendingWrites
     /\ \E i \in FirstNow..(FirstNow + MaxRaceCalls) : DeleteMemory("tA", i)

SpecRememberRace == Init /\ [][NextRememberRace]_vars

\* SpecBand: user uA starts with four records of one tag, remembered in
\* the order b1 .. b4; each is within 0.80 of the others, so each lists all
\* the others: the earlier ones nearest first, then the later ones in the
\* order they arrived.
MaxBandStores == 3
BandSeeds == Len(BandWords)
BandTexts == { <<"night">>, <<"night", ".">>, <<"morning">>, <<"evening">> }

BandSeedRow(k) ==
  LET i == FirstNow - BandSeeds + k - 1
      id(j) == FirstNow - BandSeeds + j - 1
      text == <<BandWords[k]>>
  IN  [id |-> i, user_id |-> "uA", text |-> text, tag |-> "preference",
       embedding |-> Embed(text), created_at |-> i,
       metadata |->
         [has_conflicts |-> TRUE,
          conflict_ids |-> [j \in 1..(k - 1) |-> id(k - j)]
                             \o [j \in 1..(BandSeeds - k) |-> id(k + j)]]
           @@ NewMetadata("preference", i, MemoryHash(text, "preference"), i,
                          <<>>)]

InitBand ==
  /\ memories = [i \in (FirstNow - BandSeeds)..(FirstNow - 1) |->
                   BandSeedRow(i - (FirstNow - BandSeeds) + 1)]
  /\ memory_hashes = {MemoryHash(<<BandWords[k]>>, "preference") :
                        k \in 1..BandSeeds}
  /\ now = FirstNow
  /\ response = NoResponse
  /\ inflight = NoSearch
  /\ session_store = << >>
  /\ session_tokens = << >>
  /\ streams = << >>
  /\ first_bound = << >>
  /\ forwarded = NoForward
  /\ short_term_memories = {}
  /\ calls = << >>

NextBand ==
  \/ /\ now < FirstNow + MaxBandStores
     /\ \E x \in BandTexts, tb \in TieBreaks :
          StoreMemory("tA", x, "preference", NoTime, NoTime, tb)
  \/ \E i \in (FirstNow - 1)..(FirstNow + MaxBandStores) :
       DeleteMemory("tA", i)

SpecBand == InitBand /\ [][NextBand]_vars

\* SpecGateway: the gateway alone
\* <<token in the query string, token in the Authorization header>>
SseCredentials ==
  { <<"tA", NoToken>>, <<"tA2", NoToken>>, <<"tB", NoToken>>,
    <<NoToken, "tB">>, <<"tA", "tB">>, <<"tX", NoToken>>, <<"bogus", NoToken>>,
    <<NoToken, NoToken>> }
PostCredentials ==
  { <<NoToken, NoToken>>, <<"tB", NoToken>>, <<NoToken, "tB">>,
    <<"tX", NoToken>> }
ClientTokens == {"tB", "bogus", NoToken}
BodyInputs ==
  {Body("empty", "", "absent", "absent", NoToken),
   Body("text", "", "absent", "absent", NoToken),
   Body("bytes", "", "absent", "absent", NoToken),
   Body("scalar", "", "absent", "absent", NoToken),
   Body("object", "initialize", "object", "object", "tB")}
  \cup {Body("object", "tools/call", p, "absent", NoToken) :
          p \in {"absent", "null", "list", "list_arguments", "object"}}
  \cup {Body("object", "tools/call", "object", a, NoToken) :
          a \in {"null", "list"}}
  \cup {Body("object", "tools/call", "object", "object", t) :
          t \in ClientTokens}

NextGateway ==
  \/ \E cr \in SseCredentials : SseOpen(cr[1], cr[2])
  \/ \E c \in 1..MaxStreams, e \in BOOLEAN, sid \in SessionIds \cup {NoSid} :
       SseChunk(c, e, sid)
  \/ \E cr \in PostCredentials, sid \in SessionIds \cup {NoSid},
        b \in BodyInputs :
       MessagesPassthrough("POST", cr[1], cr[2], sid, b)
  \/ \E sid \in SessionIds :
       MessagesPassthrough("GET", NoToken, NoToken, sid,
                           Body("object", "tools/call", "object", "object",
                                "tB"))

SpecGateway == Init /\ [][NextGateway]_vars

\* SpecIds: remembers that may fall within one millisecond
MaxIdStores == 3
IdTexts == { <<"night">>, <<"morning">>, <<"evening">> }
IdTokens == {"tA", "tB"}

\* line 403 reads the clock in the millisecond in which the last record was
\* given its id
SameMillisecond ==
  /\ response.op = "store" /\ response.status = "stored"
  /\ response.id = now - 1
  /\ now' = now - 1
  /\ UNCHANGED <<memories, memory_hashes, response, inflight>>
  /\ UNCHANGED gatewayVars
  /\ UNCHANGED checkpointVars

\* time passes between two requests
ClockAdvances ==
  /\ now < FirstNow + MaxIdStores
  /\ now' = now + 1
  /\ UNCHANGED <<memories, memory_hashes, response, inflight>>
  /\ UNCHANGED gatewayVars
  /\ UNCHANGED checkpointVars

NextIds ==
  \/ /\ now < FirstNow + MaxIdStores
     /\ \E t \in IdTokens, x \in IdTexts :
          StoreMemory(t, x, "preference", NoTime, NoTime, "asc")
  \/ SameMillisecond
  \/ ClockAdvances

SpecIds == Init /\ [][NextIds]_vars

\* SpecAge: records that age, with the time fields a request may supply
MaxAgeStores == 1
MaxAgeDays == 122
AgeTexts == { <<"night">>, <<"go">> }
AgeTags == {"preference", "identity"}
AgeTokens == {"tA", "tB"}
AgeTimes == {NoTime, FirstNow - 1}
AgeSteps == {31, 91}

\* d days go by with no request
TimePasses(d) ==
  /\ now + d * Day <= FirstNow + MaxAgeDays * Day
  /\ now' = now + d * Day
  /\ UNCHANGED <<memories, memory_hashes, response, inflight>>
  /\ UNCHANGED gatewayVars
  /\ UNCHANGED checkpointVars

NextAge ==
  \/ /\ Cardinality(Ids) < MaxAgeStores
     /\ \E x \in AgeTexts, g \in AgeTags, ts \in AgeTimes, la \in AgeTimes :
          StoreMemory("tA", x, g, ts, la, "asc")
  \/ \E t \in AgeTokens : SearchMemories(t, <<"night">>, 10, NoTag, "asc")
  \/ \E d \in AgeSteps : TimePasses(d)
  \/ \E t \in AgeTokens : PruneMemories(t)

SpecAge == Init /\ [][NextAge]_vars

\* SpecStream: SSE connections from open to end, session-only requests and
\* the OAuth endpoints
GrantTypes == {"authorization_code", TOKEN_EXCHANGE, "password"}
SubjectTokens == {NoToken, "tB", "tX"}
EndCauses == {"eof", "StreamClosed", "Exception"}
SessionCall == Body("object", "tools/call", "object", "object", NoToken)

NextStream ==
  \/ \E cr \in SseCredentials : SseOpen(cr[1], cr[2])
  \/ \E c \in 1..MaxStreams, e \in BOOLEAN, sid \in SessionIds \cup {NoSid} :
       SseChunk(c, e, sid)
  \/ \E c \in 1..MaxStreams, cause \in EndCauses : SseEnd(c, cause)
  \/ \E sid \in SessionIds \cup {NoSid} :
       MessagesPassthrough("POST", NoToken, NoToken, sid, SessionCall)
  \/ AuthorizeEndpoint
  \/ \E g \in GrantTypes, st \in SubjectTokens : TokenEndpoint(g, st)

SpecStream == Init /\ [][NextStream]_vars

\* SpecDispatcher: tool calls reaching the dispatcher
ContextSessions == {NoSid} \cup SessionIds
CallTokens == {"tA", "tB", "tX", NoToken}

NextDispatcher ==
  \E name \in ToolNames, cs \in ContextSessions, t \in CallTokens :
    HandleCallTool(name, cs, t)

SpecDispatcher == Init /\ [][NextDispatcher]_vars

\* ------------------------------------------------------------------------
\* Properties of the gateway (SpecGateway)
\* ------------------------------------------------------------------------
\* the last handler was messages_passthrough and it sent the request on
Forwarded == response.op = "messages" /\ forwarded.sent

ForwardedToolsCall ==
  /\ Forwarded
  /\ forwarded.method = "POST"
  /\ forwarded.received.kind = "object"
  /\ forwarded.received.rpc = "tools/call"

\* C2, as stated: every forwarded POST tools/call carries, under
\* params.arguments.user_token, the token bound to the request's session,
\* whatever the shape of params and arguments.
C2_AsStated ==
  ForwardedToolsCall =>
    /\ forwarded.session_id \in DOMAIN session_store
    /\ forwarded.body.params = "object"
    /\ forwarded.body.arguments = "object"
    /\ forwarded.body.user_token = session_store[forwarded.session_id].token

\* C2: a forwarded POST tools/call whose params is an object holding an
\* arguments object carries, under params.arguments.user_token, the token the
\* gateway authenticated the request with: the request's own token when it
\* has one, the token bound to its session otherwise.  The client's value is
\* overwritten.  A tools/call of another shape is forwarded as received.
C2_TokenInjection ==
  ForwardedToolsCall =>
    IF forwarded.received.params = "object"
       /\ forwarded.received.arguments = "object"
    THEN /\ forwarded.body.user_token = forwarded.x_user_token
         /\ IF forwarded.own_token # NoToken
            THEN forwarded.body.user_token = forwarded.own_token
            ELSE /\ forwarded.session_id \in DOMAIN session_store
                 /\ forwarded.body.user_token =
                      session_store[forwarded.session_id].token
    ELSE forwarded.body = forwarded.received

\* C2 witness: a session request whose client wrote another user's token
\* into its arguments went downstream with the session's token
C2_Witness ==
  /\ ForwardedToolsCall
  /\ forwarded.own_token = NoToken
  /\ forwarded.received.params = "object"
  /\ forwarded.received.arguments = "object"
  /\ forwarded.received.user_token = "tB"
  /\ forwarded.body.user_token = "tA"

C4_FirstBinderWins ==
  [][/\ \A s \in DOMAIN session_store :
          /\ s \in DOMAIN session_store'
          /\ session_store'[s].user_id = session_store[s].user_id
     /\ (response'.op = "chunk" /\ response'.status = "fixation")
          => session_store' = session_store]_vars

\* C4 witness: a handshake naming a session of another user was observed
C4_Witness ==
  /\ response.op = "chunk"
  /\ response.status = "fixation"
  /\ response.sid \in DOMAIN session_store
  /\ session_store[response.sid].user_id # response.user

\* ------------------------------------------------------------------------
\* Properties of the memory engine
\* ------------------------------------------------------------------------
Users == {auth_tokens[t].user_id : t \in Tokens}

\* the ids a stored record lists as its conflicts
Edges(i) == Range(ConflictIds(memories[i].metadata))

\* C1 (SpecRecall): every record in the results or in the conflict_groups of
\* a recall by user U is owned by U, whatever other users have stored.
C1_RecallIsolation ==
  (response.op = "search" /\ response.status = "ok") =>
    /\ \A k \in 1..Len(response.results) :
         response.results[k].owner = response.user
    /\ \A g \in response.conflict_groups :
         \A e \in g : e.owner = response.user

\* C1 witness: a recall returned records and a conflict group while another
\* user had a record in the store
C1_Witness ==
  /\ response.op = "search"
  /\ response.status = "ok"
  /\ Len(response.results) >= 2
  /\ response.conflict_groups # {}
  /\ \E i \in Ids : memories[i].user_id # response.user

\* C5, as stated (SpecQuota): no non-admin user owns more than 25 records,
\* and every remember issued while the user owns 25 returns the quota result
\* with used = 25 and limit = 25 and leaves the count at 25.
C5_AsStated ==
  /\ [](\A u \in Users : ~IsAdmin(u) => CountMemories(u) <= 25)
  /\ [][\A u \in Users :
          (/\ ~IsAdmin(u)
           /\ CountMemories(u) = 25
           /\ response'.op = "store"
           /\ response'.user = u) =>
            /\ response'.status = "limit"
            /\ response'.memories_used = 25
            /\ response'.memory_limit = 25
            /\ CountMemories(u)' = 25]_vars

\* C5 (SpecQuota): no non-admin user owns more than 25 records.  A remember
\* issued while the user owns 25 leaves the count at 25; it returns the
\* quota result with used = 25 and limit = 25, unless its tag is rejected
\* (400) or its exact hash is in the process-wide hash set, in which case
\* it returns the exact-duplicate result: those two checks come first.
C5_Quota ==
  /\ [](\A u \in Users : ~IsAdmin(u) => CountMemories(u) <= 25)
  /\ [][\A u \in Users :
          (/\ ~IsAdmin(u)
           /\ CountMemories(u) = 25
           /\ response'.op = "store"
           /\ response'.user = u) =>
            /\ CountMemories(u)' = 25
            /\ response'.status \in {"limit", "skipped", "400"}
            /\ response'.status = "limit" =>
                 /\ response'.memories_used = 25
                 /\ response'.memory_limit = 25
            /\ response'.status = "skipped" =>
                 MemoryHash(response'.text, response'.tag) \in memory_hashes
       ]_vars

\* C5 witness: a remember was answered by the quota result, 25 of 25
C5_Witness ==
  /\ response.op = "store"
  /\ response.status = "limit"
  /\ response.memories_used = 25
  /\ ~IsAdmin(response.user)
  /\ CountMemories(response.user) = 25

\* C6 (Spec): the conflict relation is symmetric: for all stored records a
\* and b of a user, a is in b.conflict_ids iff b is in a.conflict_ids.
C6_Symmetry ==
  \A a \in Ids, b \in Ids :
    memories[a].user_id = memories[b].user_id =>
      (a \in Edges(b) <=> b \in Edges(a))

\* C6 witness: after a forget, two records of a user still list each other
C6_Witness ==
  /\ response.op = "delete"
  /\ response.status = "deleted"
  /\ \E a \in Ids, b \in Ids : a # b /\ a \in Edges(b) /\ b \in Edges(a)

\* C7 (Spec): after forget(b) no stored record lists b, and every former
\* neighbour of b whose list became empty has has_conflicts = false; in
\* every state every id in a conflict_ids list is the id of a stored record.
C7_NoDangling ==
  /\ [](\A i \in Ids : Edges(i) \subseteq Ids)
  /\ [][(response'.op = "delete" /\ response'.status = "deleted") =>
          /\ \A i \in DOMAIN memories' :
               response'.id \notin Range(ConflictIds(memories'[i].metadata))
          /\ \A i \in Ids \cap DOMAIN memories' :
               (/\ response'.id \in Edges(i)
                /\ ConflictIds(memories'[i].metadata) = <<>>) =>
                 ~HasConflicts(memories'[i].metadata)]_vars

\* C7 witness: the forgotten record had a neighbour, which is left with no
\* conflicts
C7_Witness ==
  /\ response.op = "delete"
  /\ response.status = "deleted"
  /\ \E i \in Ids :
       /\ "has_conflicts" \in DOMAIN memories[i].metadata
       /\ ~memories[i].metadata.has_conflicts
       /\ ConflictIds(memories[i].metadata) = <<>>

\* C8 (SpecRecall): for every stored record, has_conflicts is true iff
\* conflict_ids is non-empty.
C8_FlagCoherence ==
  \A i \in Ids :
    HasConflicts(memories[i].metadata)
      <=> ConflictIds(memories[i].metadata) # <<>>

\* C8 witness: a record that was recalled while it had a conflict has lost
\* its only neighbour to a forget
C8_Witness ==
  /\ response.op = "delete"
  /\ response.status = "deleted"
  /\ \E i \in Ids :
       /\ "has_conflicts" \in DOMAIN memories[i].metadata
       /\ ~memories[i].metadata.has_conflicts
       /\ memories[i].metadata.last_accessed > memories[i].metadata.timestamp

\* C9 (Spec): every conflict edge joins two records of one owner and one tag.
C9_SameOwnerSameTag ==
  \A a \in Ids, b \in Ids :
    a \in Edges(b) =>
      /\ memories[a].user_id = memories[b].user_id
      /\ memories[a].tag = memories[b].tag

\* C9 witness: two records list each other while a record of another user
\* with the same tag, and a record of the same user with another tag, are as
\* close to one of them and are not listed
C9_Witness ==
  \E a \in Ids, b \in Ids, c \in Ids :
    /\ a \in Edges(b)
    /\ b \in Edges(a)
    /\ c \notin Edges(a)
    /\ Similarity(memories[c].embedding, memories[a].embedding)
         >= SIMILARITY_THRESHOLD
    /\ \/ memories[c].user_id # memories[a].user_id
          /\ memories[c].tag = memories[a].tag
       \/ memories[c].user_id = memories[a].user_id
          /\ memories[c].tag # memories[a].tag

\* C10, as stated (Spec): what a remember by U returns does not depend on
\* other users: it is answered as an exact duplicate only when U has a
\* record with the same normalised text and tag.
C10_AsStated ==
  (response.op = "store" /\ response.status = "skipped") =>
    \E i \in Ids :
      /\ memories[i].user_id = response.user
      /\ MemoryHash(memories[i].text, memories[i].tag)
           = MemoryHash(response.text, response.tag)

\* records of user u whose lowercase-trimmed text and tag are those of
\* (text, tag)
SameMemory(u, text, tag) ==
  {i \in Ids : /\ memories[i].user_id = u
               /\ Normalize(memories[i].text) = Normalize(text)
               /\ memories[i].tag = tag}

\* C11, as stated (Spec): after a remember of (text, tag) that was stored or
\* answered as an exact duplicate, the user owns exactly one record with
\* that text, letter case and outer whitespace ignored, and that tag.
C11_AsStated ==
  (response.op = "store" /\ response.status \in {"stored", "skipped"}) =>
    Cardinality(SameMemory(response.user, response.text, response.tag)) = 1

\* C12, as stated (SpecQuota): remember answers exact duplicate only while
\* a record with the same lowercase-trimmed text and the same tag is stored.
C12_AsStated ==
  (response.op = "store" /\ response.status = "skipped") =>
    \E i \in Ids : /\ Normalize(memories[i].text) = Normalize(response.text)
                   /\ memories[i].tag = response.tag

\* C14, as stated (Spec): the result of a remember that stored a record
\* lists the conflicts it detected, exactly the ids written into the new
\* record's conflict_ids.
C14_AsStated ==
  (response.op = "store" /\ response.status = "stored") =>
    Range(RememberConflicts(response)) = Edges(response.id)

\* a record of user u and tag tag is more than 0.95 similar to text
NearDuplicate(u, text, tag) ==
  \E i \in Scope(u, tag) :
    Similarity(memories[i].embedding, Embed(text)) > DUPLICATE_THRESHOLD

NoNearDuplicatesStored ==
  \A a \in Ids, b \in Ids :
    (/\ a # b
     /\ memories[a].user_id = memories[b].user_id
     /\ memories[a].tag = memories[b].tag) =>
      Similarity(memories[a].embedding, memories[b].embedding)
        <= DUPLICATE_THRESHOLD

\* C13, as stated (SpecDedup): no user owns two records of one tag more
\* than 0.95 similar, and every remember of a text more than 0.95 similar to
\* a record of the same user and tag returns duplicate/semantic and leaves
\* the records as they were.
C13_AsStated ==
  /\ []NoNearDuplicatesStored
  /\ [][\A t \in DedupTokens, x \in DedupTexts, g \in DedupTags :
          (/\ StoreMemory(t, x, g, NoTime, NoTime, "asc")
           /\ NearDuplicate(GetUserFromToken(t), x, g)) =>
            /\ response'.status = "duplicate"
            /\ memories' = memories]_vars

\* C13 (SpecDedup): no user owns two records of one tag more than 0.95
\* similar.  A remember of a text more than 0.95 similar to a record of the
\* same user and tag leaves the records as they were; it returns
\* duplicate/semantic, naming such a record, unless its exact hash is in the
\* hash set (exact duplicate) or the user is at the quota: those checks come
\* first.  The 3 nearest neighbours are enough to find it.
C13_SemanticDedup ==
  /\ []NoNearDuplicatesStored
  /\ [][\A t \in DedupTokens, x \in DedupTexts, g \in DedupTags :
          (/\ StoreMemory(t, x, g, NoTime, NoTime, "asc")
           /\ NearDuplicate(GetUserFromToken(t), x, g)) =>
            /\ memories' = memories
            /\ response'.status \in {"duplicate", "skipped", "limit"}
            /\ response'.status = "skipped" =>
                 ExactDuplicate(MemoryHash(x, g))
            /\ response'.status = "limit" =>
                 QuotaReached(GetUserFromToken(t))
            /\ response'.status = "duplicate" =>
                 /\ response'.existing \in Scope(GetUserFromToken(t), g)
                 /\ response'.similarity > DUPLICATE_THRESHOLD]_vars

\* C13 witness: a remember was answered duplicate/semantic while the user
\* had more records of that tag than the scan examines
C13_Witness ==
  /\ response.op = "store"
  /\ response.status = "duplicate"
  /\ Cardinality(Scope(response.user, memories[response.existing].tag))
       > DUP_SCAN_LIMIT

\* ids of the members of a returned group
GroupIds(g) == {e.id : e \in g}

\* ids of the returned results
ResultIds == {response.results[k].id : k \in 1..Len(response.results)}

\* the ids of S joined to the ids of T by conflict edges inside S
RECURSIVE Chain(_, _)
Chain(S, T) ==
  LET grown == T \cup {i \in S : \E j \in T : i \in Edges(j) \/ j \in Edges(i)}
  IN  IF grown = T THEN T ELSE Chain(S, grown)

\* C15 (SpecGroups): the conflict_groups of a recall are pairwise disjoint,
\* each has at least 2 members, and two returned records joined by a chain
\* of conflict edges through returned records are in one group.
C15_ConflictGroups ==
  (response.op = "search" /\ response.status = "ok") =>
    /\ \A g \in response.conflict_groups : Cardinality(GroupIds(g)) >= 2
    /\ \A g \in response.conflict_groups, h \in response.conflict_groups :
         g # h => GroupIds(g) \cap GroupIds(h) = {}
    /\ \A a \in ResultIds \cap Ids :
         \A b \in Chain(ResultIds \cap Ids, {a}) \ {a} :
           \E g \in response.conflict_groups : {a, b} \subseteq GroupIds(g)

\* C15 witness: three returned records, edges A-B and B-C and no edge A-C,
\* in one group of size 3
C15_Witness ==
  /\ response.op = "search"
  /\ response.status = "ok"
  /\ \E g \in response.conflict_groups :
       /\ Cardinality(GroupIds(g)) = 3
       /\ GroupIds(g) \subseteq ResultIds \cap Ids
       /\ \E a \in GroupIds(g), c \in GroupIds(g) :
            a # c /\ a \notin Edges(c) /\ c \notin Edges(a)

\* C19 (SpecRecall): a forget of an id that is not stored, or that is stored for
\* another user, returns the same not-found result in both cases and leaves
\* the records, their conflict edges and the hash set as they were.
C19_ForgetNotFound ==
  [][\A t \in RecallTokens, i \in RecallIds :
       (/\ DeleteMemory(t, i)
        /\ GetUserFromToken(t) # NoUser
        /\ (i \notin Ids \/ memories[i].user_id # GetUserFromToken(t))) =>
         /\ response' = [op |-> "delete", user |-> GetUserFromToken(t),
                         status |-> "404"]
         /\ memories' = memories
         /\ memory_hashes' = memory_hashes]_vars

\* C19 witness: uB, who has no record left, was answered not-found while uA
\* has two records that list each other
C19_Witness ==
  /\ response = [op |-> "delete", user |-> "uB", status |-> "404"]
  /\ \A i \in Ids : memories[i].user_id = "uA"
  /\ \E i \in Ids : Edges(i) # {}

\* C20 (SpecGateway): a request to open the SSE stream with no token, or
\* with a token that is unknown or inactive, gets the same 401, opens no
\* connection downstream and binds no session.
C20_SseUnauthorized ==
  [][\A cr \in SseCredentials :
       (/\ SseOpen(cr[1], cr[2])
        /\ \/ RequestToken(cr[1], cr[2]) = NoToken
           \/ RequestToken(cr[1], cr[2]) \notin Tokens
           \/ ~auth_tokens[RequestToken(cr[1], cr[2])].is_active) =>
         /\ response' = [op |-> "sse", user |-> NoUser, status |-> "401"]
         /\ streams' = streams
         /\ session_store' = session_store]_vars

\* C20 witness: a request to open the stream was refused while a stream and
\* a session binding of an authenticated user exist
C20_Witness ==
  /\ response = [op |-> "sse", user |-> NoUser, status |-> "401"]
  /\ Len(streams) = 1
  /\ DOMAIN session_store # {}

\* created_at of a returned result, while its record is stored
CreatedOf(e) == memories[e.id].created_at

C17_AsStated ==
  (response.op = "search" /\ response.status = "ok") =>
    \A k \in 1..Len(response.results) :
      /\ response.results[k].similarity >= 0
      /\ response.results[k].similarity <= 100

\* C18 (SpecHybrid): every record a recall with tag_filter = t returns has
\* tag t, from the semantic query and from the keyword fallback alike.
C18_TagFilter ==
  [][(/\ inflight.active
      /\ ~inflight'.active
      /\ inflight.tag_filter # NoTag
      /\ response'.op = "search"
      /\ response'.status = "ok") =>
       \A k \in 1..Len(response'.results) :
         response'.results[k].tag = inflight.tag_filter]_vars

\* C18 witness: a filtered recall returned a semantic and a keyword result
\* while a record with the keyword result's text and another tag is stored
C18_Witness ==
  /\ response.op = "search"
  /\ response.status = "ok"
  /\ \E k \in 1..Len(response.results) : response.results[k].via = "semantic"
  /\ \E k \in 1..Len(response.results) :
       /\ response.results[k].via = "keyword"
       /\ \E i \in Ids \ ResultIds :
            /\ memories[i].user_id = response.user
            /\ memories[i].text = response.results[k].text
            /\ memories[i].tag # response.results[k].tag

\* C21, as stated (SpecGateway): after a handshake naming session id s was
\* observed on a connection of Q while s is bound to another principal P, a
\* POST with session_id = s that relies on the session is rejected: it is
\* answered 401 and nothing is sent downstream.
C21_AsStated ==
  [][\A b \in BodyInputs :
       (/\ response.op = "chunk"
        /\ response.status = "fixation"
        /\ MessagesPassthrough("POST", NoToken, NoToken, response.sid, b))
         => (response'.status = "401" /\ forwarded' = NoForward)]_vars

\* ------------------------------------------------------------------------
\* Properties of checkpoint and resume
\* ------------------------------------------------------------------------
\* the completed checkpoint calls of user u, as positions in calls
CheckpointsBy(u) ==
  {c \in 1..Len(calls) : /\ calls[c].op = "checkpoint"
                         /\ calls[c].user = u
                         /\ calls[c].pc = "done"}

Latest(S) == CHOOSE c \in S : \A d \in S : d <= c

\* C22 (SpecCheckpoint): each user has at most one checkpoint row; a
\* checkpoint by U reports overwrote = TRUE exactly when U had a row before
\* the call, and then previous_checkpoint_time is the created_at of the row
\* it displaced.
C22_OneCheckpoint ==
  /\ [](\A u \in Users : Cardinality(CheckpointRows(u)) <= 1)
  /\ [][\A t \in CheckpointTokens, ti \in TitleInputs, co \in ContentInputs :
          (StoreCheckpoint(t, ti, co) /\ GetUserFromToken(t) # NoUser) =>
            LET before == {r \in short_term_memories :
                             r.user_id = GetUserFromToken(t)}
            IN  /\ response'.overwrote = (before # {})
                /\ \A r \in before :
                     /\ response'.previous_checkpoint_time = r.created_at
                     /\ r \notin short_term_memories']_vars

\* C22 witness: a checkpoint displaced the user's earlier one while another
\* user holds a checkpoint
C22_Witness ==
  /\ response.op = "checkpoint"
  /\ response.status = "ok"
  /\ response.overwrote
  /\ response.previous_checkpoint_time >= FirstNow
  /\ \E r \in short_term_memories : r.user_id # response.user

C24_AsStated ==
  [][/\ \A t \in ValidationTokens, g \in ValidationTags :
          StoreMemory(t, <<>>, g, NoTime, NoTime, "asc") =>
            /\ response'.status = "400"
            /\ UNCHANGED <<memories, memory_hashes>>
     /\ \A t \in ValidationTokens, n \in ValidationLimits,
           f \in ValidationFilters :
          (n <= 0 /\ SearchMemories(t, <<"night">>, n, f, "asc")) =>
            /\ response'.status = "400"
            /\ UNCHANGED <<memories, memory_hashes>>]_vars

\* C25 (SpecValidation): the closed set has nine tags and every stored
\* record's tag is one of them; a remember with another tag, and a recall or
\* an inventory with another tag filter, is rejected and leaves the store and
\* the exact-hash cache as they were.
C25_ClosedTagSet ==
  /\ [](/\ Cardinality(VALID_TAGS) = 9
        /\ \A i \in Ids : memories[i].tag \in VALID_TAGS)
  /\ [][/\ \A t \in ValidationTokens, x \in ValidationTexts,
              g \in ValidationTags \ VALID_TAGS :
             StoreMemory(t, x, g, NoTime, NoTime, "asc") =>
               /\ response'.status = "400"
               /\ UNCHANGED <<memories, memory_hashes>>
        /\ \A t \in ValidationTokens, n \in ValidationLimits,
              f \in ValidationFilters \ (VALID_TAGS \cup {NoTag}) :
             (\/ SearchMemories(t, <<"night">>, n, f, "asc")
              \/ ListMemories(t, f, n)) =>
               /\ response'.status = "400"
               /\ UNCHANGED <<memories, memory_hashes>>]_vars

\* C25 witness: a recall with a tag filter outside the closed set was
\* refused while the user owns a record the query would have matched
C25_Witness ==
  /\ response.op = "search"
  /\ response.status = "400"
  /\ \E i \in Ids : /\ memories[i].user_id = response.user
                    /\ memories[i].text = <<"night">>

\* a record's metadata without last_accessed
Untouched(md) == [x \in DOMAIN md \ {"last_accessed"} |-> md[x]]

\* C28, as stated (SpecHybrid): a recall changes nothing but last_accessed:
\* when it completes, every stored record has the text, tag, hash,
\* has_conflicts and conflict_ids it had before, also when a remember
\* committed while the recall was running.
C28_AsStated ==
  [][SearchFinish =>
       /\ Ids' = Ids
       /\ \A i \in Ids :
            /\ memories'[i].text = memories[i].text
            /\ memories'[i].tag = memories[i].tag
            /\ Untouched(memories'[i].metadata)
                 = Untouched(memories[i].metadata)]_vars

\* C29, as stated (SpecCheckpointRace): checkpoint calls of one user that
\* are in flight at once behave as if run one after the other: of the
\* completed calls of a user at most one found no checkpoint and reported
\* overwrote = FALSE, and one row remains.
C29_AsStated ==
  \A u \in Users :
    /\ Cardinality(CheckpointRows(u)) <= 1
    /\ \A c \in CheckpointsBy(u), d \in CheckpointsBy(u) :
         (calls[c].existing = {} /\ calls[d].existing = {}) => c = d

\* ------------------------------------------------------------------------
\* Properties of calls in flight at once
\* ------------------------------------------------------------------------
\* C26, as stated (SpecQuotaRace): however the statements of the remember
\* calls of a non-admin user interleave, the user never owns more than 25
\* records.
C26_AsStated ==
  \A u \in Users : ~IsAdmin(u) => CountMemories(u) <= MEMORY_LIMIT

AllCompleted == \A c \in 1..Len(calls) : ~InFlight(c)

\* C27, as stated (SpecRememberRace): once all remember and forget calls
\* have completed, every conflict id names a stored record and that record
\* lists the first one back.
C27_AsStated ==
  AllCompleted =>
    \A i \in Ids : \A j \in Edges(i) : j \in Ids /\ i \in Edges(j)

\* C30 (SpecRememberRace): a remember that fails after its conflict scan,
\* with or without amended neighbours, leaves the store as it was: its
\* record is absent and no stored record lists its id.
C30_FailedRemember ==
  [][\A c \in 1..MaxRaceCalls :
       RememberFail(c) =>
         /\ memories' = memories
         /\ calls[c].id \notin Ids'
         /\ \A i \in Ids' : calls[c].id \notin Edges(i)']_vars

\* C30 witness: a remember that had amended a neighbour failed
C30_Witness ==
  \E c \in 1..Len(calls) :
    /\ calls[c].op = "remember"
    /\ calls[c].status = "500"
    /\ calls[c].writes # << >>
    /\ \A i \in DOMAIN calls[c].writes : i \in Ids

\* ------------------------------------------------------------------------
\* Properties of the conflict band (SpecBand)
\* ------------------------------------------------------------------------
\* similarity of two stored records
SimilarityOf(i, j) == Similarity(memories[i].embedding, memories[j].embedding)

\* C31, as stated: every conflict edge joins two records whose similarity is
\* at least 0.65 and below 0.95.
C31_AsStated ==
  \A i \in Ids : \A j \in Edges(i) \cap Ids :
    /\ SimilarityOf(i, j) >= SIMILARITY_THRESHOLD
    /\ SimilarityOf(i, j) < DUPLICATE_THRESHOLD

\* C31: every conflict edge joins two records whose similarity is at least
\* 0.65 and at most 0.95: a pair below 0.65 is never linked, and a pair above
\* 0.95 is never linked, the second record being refused as a duplicate.
C31_ConflictBand ==
  \A i \in Ids : \A j \in Edges(i) \cap Ids :
    /\ SimilarityOf(i, j) >= SIMILARITY_THRESHOLD
    /\ SimilarityOf(i, j) <= DUPLICATE_THRESHOLD

\* C31 witness: an edge at 0.65, an edge at 0.95 and an unlinked pair of one
\* tag below 0.65 are stored
C31_Witness ==
  /\ \E i \in Ids : \E j \in Edges(i) \cap Ids :
       SimilarityOf(i, j) = SIMILARITY_THRESHOLD
  /\ \E i \in Ids : \E j \in Edges(i) \cap Ids :
       SimilarityOf(i, j) = DUPLICATE_THRESHOLD
  /\ \E i \in Ids, j \in Ids :
       /\ memories[i].tag = memories[j].tag
       /\ SimilarityOf(i, j) < SIMILARITY_THRESHOLD
       /\ j \notin Edges(i)

\* N holds the 5 records of S nearest to embedding q (all of S when it has
\* fewer): no record outside N is closer than one inside
FiveNearest(N, S, q) ==
  /\ N \subseteq S
  /\ Cardinality(N) = Min(CONFLICT_SCAN_LIMIT, Cardinality(S))
  /\ \A a \in N, b \in S \ N :
       CosDistance(memories[a].embedding, q)
         <= CosDistance(memories[b].embedding, q)

C35_AsStated ==
  [][\A cr \in SseCredentials :
       ( /\ SseOpen(cr[1], cr[2])
         /\ cr[1] # NoToken /\ cr[2] # NoToken /\ cr[1] # cr[2]
         /\ ValidateToken(cr[2]) # NoUser )
       => /\ response'.status = "200"
          /\ response'.user = ValidateToken(cr[2])
          /\ Len(streams') = Len(streams) + 1
          /\ streams'[Len(streams')].user_id = ValidateToken(cr[2])
          /\ streams'[Len(streams')].token = cr[2]]_vars

\* ------------------------------------------------------------------------
\* Properties of the SSE stream (SpecStream)
\* ------------------------------------------------------------------------
\* C33: what the gateway emits on a client's SSE stream is exactly what it
\* received from downstream for that connection: each chunk received is
\* emitted once, unaltered and with nothing before or after it, the chunk
\* carrying the handshake event included, and the end of the stream emits
\* nothing.
C33_AsStated ==
  [][/\ \A c \in 1..MaxStreams, e \in BOOLEAN, sid \in SessionIds \cup {NoSid} :
          SseChunk(c, e, sid) => response'.emitted = <<Chunk(e, sid)>>
     /\ \A c \in 1..MaxStreams, cause \in EndCauses :
          SseEnd(c, cause) => response'.emitted = << >>]_vars

\* C34: once every SSE stream has ended, and with it the stream on which
\* session id s was bound, a POST to the message endpoint carrying only
\* session_id = s is rejected.
C34_AsStated ==
  [][\A sid \in SessionIds :
       ( /\ MessagesPassthrough("POST", NoToken, NoToken, sid, SessionCall)
         /\ sid \in DOMAIN session_store
         /\ \A c \in 1..Len(streams) : streams[c].ended )
       => response'.status = "401"]_vars

\* ------------------------------------------------------------------------
\* Properties of the dispatcher (SpecDispatcher)
\* ------------------------------------------------------------------------
\* C36: a tool call that reaches the engine does so with the token carried in
\* its own arguments; a call whose arguments carry no token never goes out
\* with a token an earlier call left in the dispatcher.
C36_AsStated ==
  [][\A name \in ToolNames, cs \in ContextSessions, t \in CallTokens :
       (HandleCallTool(name, cs, t) /\ response'.status = "called")
       => (t # NoToken /\ response'.authorization = t)]_vars

C38_AsStated ==
  \A i \in Ids : memories[i].metadata.last_accessed >= memories[i].created_at

\* the record is due for archiving: not a core tag, created more than 90
\* days ago and last accessed more than 30 days ago
Due(i) ==
  /\ memories[i].tag \notin CORE_TAGS
  /\ memories[i].created_at < now - ARCHIVE_AGE_DAYS * Day
  /\ memories[i].metadata.last_accessed < now - ACCESS_THRESHOLD_DAYS * Day

\* C39: a pruning pass of an authenticated user removes no record and
\* leaves each of the user's records marked archived exactly when it is
\* due; a record with a core tag is never marked.
C39_AsStated ==
  [][\A t \in AgeTokens :
       (PruneMemories(t) /\ GetUserFromToken(t) # NoUser)
       => /\ DOMAIN memories' = Ids
          /\ \A i \in Scope(GetUserFromToken(t), NoTag) :
               /\ Archived(memories'[i].metadata) <=> Due(i)
               /\ memories[i].tag \in CORE_TAGS
                    => ~Archived(memories'[i].metadata)]_vars

\* C40: the token endpoint answers with an access token only to a caller
\* that presented that same token in the request.
C40_AsStated ==
  [][\A g \in GrantTypes, st \in SubjectTokens :
       (TokenEndpoint(g, st) /\ "access_token" \in DOMAIN response')
       => response'.access_token = st]_vars

====
